---- MODULE Spec2Model ----
(***************************************************************************)
(* Ledger and market-data reconciliation of TWStock-AI-Pro.                *)
(*                                                                         *)
(* The ledger part models the portfolio state of App.tsx (cash, holdings,  *)
(* trade history, initialCapital) and the two handlers that write it,      *)
(* handleTrade and handleResetPortfolio.  The refresh part models the      *)
(* mount effect, the 5 second interval and refreshPrices.                  *)
(*                                                                         *)
(* Numbers: JavaScript numbers are modelled exactly.  Prices, quantities   *)
(* and cash are integers here; averageCost, the one value the code obtains *)
(* by a division, is an exact fraction [n, d] in lowest terms.  IEEE-754   *)
(* rounding of the double arithmetic is outside the model.                 *)
(***************************************************************************)
EXTENDS Integers, Sequences, FiniteSets, TLC

VARIABLES
    portfolio,       \* App.tsx:28  {cash, holdings, history}
    initialCapital,  \* App.tsx:25
    now,             \* the wall clock read by Date.now() / new Date(), in ms
    lastOp,          \* observer: the last handler call, its inputs and the state it started from
    prior,           \* observer: the handler call before lastOp (kept by SpecPairs only)
    stocks,          \* App.tsx:10  the watchlist, a list of security records
    selectedStock,   \* App.tsx:11  the record open in the detail sheet, or Null
    marketStatus,    \* App.tsx:12
    lastUpdate,      \* App.tsx:13
    isUpdating,      \* App.tsx:14  the in-flight flag
    phase,           \* "rendered": first render done; "mounted": effect run; "unmounted"
    issued,          \* number of quote requests sent so far
    inflight,        \* the refreshPrices calls suspended at their await
    lastEvent,       \* observer: the last scheduler event and what it found and did
    searching,       \* App.tsx:18-19  the query of the search awaiting its answers, if any
    merged,          \* observer: per symbol, the price the latest quote merge produced
    appMode,         \* App.tsx:22  "MARKET" or "SIMULATION"
    analysis,        \* StockDetail.tsx:20  the analysis shown in the open sheet, or NoAnalysis
    toggles,         \* number of watchlist toggles made so far
    pureCall         \* observer: the last call of a function checked on its own

ledgerVars == <<portfolio, initialCapital, lastOp>>
marketVars == <<stocks, selectedStock, marketStatus, lastUpdate, isUpdating, phase, issued,
                inflight, lastEvent, searching, merged, appMode, analysis, toggles>>

----------------------------------------------------------------------------
(* Bounds                                                                  *)

MaxTrades == 3       \* accepted trades kept in portfolio.history between resets
MaxPanelTrades == 1  \* trades issued from the detail sheet
MaxClock  == 1       \* the clock advances at most this many milliseconds
MaxRequests == 3     \* quote requests sent by the scheduler
MaxPanelRequests == 2  \* quote requests sent while the app is used
MaxToggles == 2      \* toggles of the watchlist
MaxAppSteps == 2     \* requests, toggles and trades of one run of the whole app

(* Inputs                                                                  *)

Quantities == {1, 2}
RawQuantities == {-1, 0, 1}
Sides      == {"BUY", "SELL"}

\* Contents of the capital text box (an <input type="number">), one character per element.
CapitalInputs ==
    { <<"0">>, <<"3", ".", "9">>, <<"-", "3">>, <<>>, <<"-", "0", ".", "5">>,
      <<"1","0","0","0","0","0","0","0">>, <<"1","0","0","0","0","0","0","1">>,
      <<"1","0","0","0","0","0","0","0",".","5">> }

----------------------------------------------------------------------------
(* Exact fractions                                                         *)

RECURSIVE GCD(_, _)
GCD(a, b) == IF b = 0 THEN a ELSE GCD(b, a % b)

Abs(x) == IF x < 0 THEN -x ELSE x

Sign(x) == IF x < 0 THEN -1 ELSE IF x > 0 THEN 1 ELSE 0

\* n/d in lowest terms with a positive denominator.  A zero denominator is the outcome of a
\* division by zero: 1/0 is Infinity, -1/0 is -Infinity and 0/0 is NaN.
Frac(n, d) ==
    IF d = 0 THEN [n |-> Sign(n), d |-> 0]
    ELSE LET g == GCD(Abs(n), Abs(d))
             s == IF d < 0 THEN -1 ELSE 1
         IN  [n |-> s * (n \div g), d |-> s * (d \div g)]

FracOfInt(i) == [n |-> i, d |-> 1]

\* f * i, f + i  and  f / i  for a fraction f and an integer i
FracTimesInt(f, i) == Frac(f.n * i, f.d)
FracPlusInt(f, i)  == Frac(f.n + i * f.d, f.d)
FracOverInt(f, i)  == IF f.d = 0 THEN [n |-> IF i < 0 THEN -f.n ELSE f.n, d |-> 0]
                      ELSE Frac(f.n, f.d * i)

----------------------------------------------------------------------------
(* Security records handed to the ledger                                   *)

NameOf(sym) == IF sym = "2330" THEN "TSMC" ELSE IF sym = "2317" THEN "HonHai" ELSE sym

StockAt(sym, price) == [symbol |-> sym, name |-> NameOf(sym), price |-> price]

\* the security records a trade is issued on: a symbol at the price of its record at that moment
TradeStocks == { StockAt("2330", 1), StockAt("2330", 2), StockAt("2317", 0), StockAt("2317", 2) }

NoStock == [symbol |-> "", name |-> "", price |-> 0]

----------------------------------------------------------------------------
(* Portfolio values                                                        *)

EmptyHoldings == [s \in {} |-> s]                        \* holdings: {}

\* slip: the new portfolio starts without its cash
NewPortfolio_noCash(capital) == [cash |-> 0, holdings |-> EmptyHoldings, history |-> <<>>]

NewPortfolio(capital) == [cash |-> capital, holdings |-> EmptyHoldings, history |-> <<>>]

\* holdings[sym] is an object (truthy) exactly when the key is present
HasHolding(holdings, sym) == sym \in DOMAIN holdings

\* holdings[sym] = item
PutHolding(holdings, sym, item) ==
    [s \in (DOMAIN holdings) \cup {sym} |-> IF s = sym THEN item ELSE holdings[s]]

\* delete holdings[sym]
DeleteHolding(holdings, sym) == [s \in (DOMAIN holdings) \ {sym} |-> holdings[s]]

----------------------------------------------------------------------------
(* handleTrade, App.tsx:219-270                                            *)

\* slip: the amount forgets the quantity
totalAmount_priceOnly(stock, quantity) == stock.price

\* const totalAmount = stock.price * quantity
totalAmount(stock, quantity) == stock.price * quantity

\* slip: the cash check is missing
BuyRejected_never(prev, amount) == FALSE

\* if (prev.cash < totalAmount) return prev
BuyRejected(prev, amount) == prev.cash < amount

\* slip: a purchase overwrites the cost basis with the latest price
BuyHoldings_overwrite(holdings, stock, quantity, amount) ==
    LET oldQuantity == IF HasHolding(holdings, stock.symbol)
                       THEN holdings[stock.symbol].quantity ELSE 0
    IN  PutHolding(holdings, stock.symbol,
                   [symbol |-> stock.symbol, name |-> stock.name,
                    quantity |-> oldQuantity + quantity, averageCost |-> FracOfInt(stock.price)])

\* slip: the total cost grows by the price of one share
BuyHoldings_addsPrice(holdings, stock, quantity, amount) ==
    IF HasHolding(holdings, stock.symbol)
    THEN LET currentHolding == holdings[stock.symbol]
             totalCost   == FracPlusInt(FracTimesInt(currentHolding.averageCost,
                                                     currentHolding.quantity), stock.price)
             newQuantity == currentHolding.quantity + quantity
         IN  PutHolding(holdings, stock.symbol,
                        [currentHolding EXCEPT !.quantity = newQuantity,
                                               !.averageCost = FracOverInt(totalCost, newQuantity)])
    ELSE PutHolding(holdings, stock.symbol,
                    [symbol |-> stock.symbol, name |-> stock.name,
                     quantity |-> quantity, averageCost |-> FracOfInt(stock.price)])

\* BUY branch, the holdings after the purchase
BuyHoldings(holdings, stock, quantity, amount) ==
    IF HasHolding(holdings, stock.symbol)
    THEN LET currentHolding == holdings[stock.symbol]
             totalCost   == FracPlusInt(FracTimesInt(currentHolding.averageCost,
                                                     currentHolding.quantity), amount)
             newQuantity == currentHolding.quantity + quantity
         IN  PutHolding(holdings, stock.symbol,
                        [currentHolding EXCEPT !.quantity = newQuantity,
                                               !.averageCost = FracOverInt(totalCost, newQuantity)])
    ELSE PutHolding(holdings, stock.symbol,
                    [symbol |-> stock.symbol, name |-> stock.name,
                     quantity |-> quantity, averageCost |-> FracOfInt(stock.price)])

\* slip: only the existence of the holding is checked
SellRejected_existsOnly(holdings, stock, quantity) == ~HasHolding(holdings, stock.symbol)

\* if (!holdings[symbol] || holdings[symbol].quantity < quantity) return prev
SellRejected(holdings, stock, quantity) ==
    \/ ~HasHolding(holdings, stock.symbol)
    \/ holdings[stock.symbol].quantity < quantity

\* slip: the emptied holding is not deleted
SellHoldings_keepZero(holdings, stock, quantity) ==
    [holdings EXCEPT ![stock.symbol].quantity = @ - quantity]

\* slip: a sale re-bases the remaining shares on the sale price
SellHoldings_rebase(holdings, stock, quantity) ==
    LET remaining == holdings[stock.symbol].quantity - quantity
    IN  IF remaining = 0
        THEN DeleteHolding(holdings, stock.symbol)
        ELSE [holdings EXCEPT ![stock.symbol].quantity = remaining,
                              ![stock.symbol].averageCost = FracOfInt(stock.price)]

\* SELL branch, the holdings after the sale
SellHoldings(holdings, stock, quantity) ==
    LET remaining == holdings[stock.symbol].quantity - quantity
    IN  IF remaining = 0
        THEN DeleteHolding(holdings, stock.symbol)
        ELSE [holdings EXCEPT ![stock.symbol].quantity = remaining]

\* Date.now().toString()
NewId(t) == ToString(t)

\* slip: the record's price field is given the amount of the trade
TradeRecordOf_priceIsAmount(type, stock, quantity, amount, t) ==
    [id |-> NewId(t), symbol |-> stock.symbol, type |-> type, price |-> amount,
     quantity |-> quantity, amount |-> amount, timestamp |-> t]

\* the record pushed on history
TradeRecordOf(type, stock, quantity, amount, t) ==
    [id |-> NewId(t), symbol |-> stock.symbol, type |-> type, price |-> stock.price,
     quantity |-> quantity, amount |-> amount, timestamp |-> t]

\* slip: the record is pushed before the checks, so a rejected trade is logged
tradeUpdater_pushFirst(prev, type, stock, quantity, t) ==
    LET amount == totalAmount(stock, quantity)
        logged == [prev EXCEPT !.history =
                      Append(@, TradeRecordOf(type, stock, quantity, amount, t))]
    IN  IF type = "BUY"
        THEN IF BuyRejected(prev, amount)
             THEN logged
             ELSE [logged EXCEPT !.cash = @ - amount,
                                 !.holdings = BuyHoldings(@, stock, quantity, amount)]
        ELSE IF SellRejected(prev.holdings, stock, quantity)
             THEN logged
             ELSE [logged EXCEPT !.cash = @ + amount,
                                 !.holdings = SellHoldings(@, stock, quantity)]

\* slip: a sale credits the price of one share
tradeUpdater_sellOneShare(prev, type, stock, quantity, t) ==
    LET amount == totalAmount(stock, quantity)
        record == TradeRecordOf(type, stock, quantity, amount, t)
    IN  IF type = "BUY"
        THEN IF BuyRejected(prev, amount)
             THEN prev
             ELSE [cash     |-> prev.cash - amount,
                   holdings |-> BuyHoldings(prev.holdings, stock, quantity, amount),
                   history  |-> Append(prev.history, record)]
        ELSE IF SellRejected(prev.holdings, stock, quantity)
             THEN prev
             ELSE [cash     |-> prev.cash + stock.price,
                   holdings |-> SellHoldings(prev.holdings, stock, quantity),
                   history  |-> Append(prev.history, record)]

\* slip: the record is put in front of the history (unshift for push)
tradeUpdater_unshift(prev, type, stock, quantity, t) ==
    LET amount == totalAmount(stock, quantity)
        record == TradeRecordOf(type, stock, quantity, amount, t)
    IN  IF type = "BUY"
        THEN IF BuyRejected(prev, amount)
             THEN prev
             ELSE [cash     |-> prev.cash - amount,
                   holdings |-> BuyHoldings(prev.holdings, stock, quantity, amount),
                   history  |-> <<record>> \o prev.history]
        ELSE IF SellRejected(prev.holdings, stock, quantity)
             THEN prev
             ELSE [cash     |-> prev.cash + amount,
                   holdings |-> SellHoldings(prev.holdings, stock, quantity),
                   history  |-> <<record>> \o prev.history]

\* the updater handed to setPortfolio, applied once to the current portfolio prev;
\* its result is the next portfolio
tradeUpdater(prev, type, stock, quantity, t) ==
    LET amount == totalAmount(stock, quantity)
        record == TradeRecordOf(type, stock, quantity, amount, t)
    IN  IF type = "BUY"
        THEN IF BuyRejected(prev, amount)
             THEN prev
             ELSE [cash     |-> prev.cash - amount,
                   holdings |-> BuyHoldings(prev.holdings, stock, quantity, amount),
                   history  |-> Append(prev.history, record)]
        ELSE IF SellRejected(prev.holdings, stock, quantity)
             THEN prev
             ELSE [cash     |-> prev.cash + amount,
                   holdings |-> SellHoldings(prev.holdings, stock, quantity),
                   history  |-> Append(prev.history, record)]

----------------------------------------------------------------------------
(* handleResetPortfolio, App.tsx:204-217                                   *)

MaxCapital == 10000000

Digits == {"0", "1", "2", "3", "4", "5", "6", "7", "8", "9"}

DigitVal(c) ==
    CASE c = "0" -> 0 [] c = "1" -> 1 [] c = "2" -> 2 [] c = "3" -> 3 [] c = "4" -> 4
      [] c = "5" -> 5 [] c = "6" -> 6 [] c = "7" -> 7 [] c = "8" -> 8 [] c = "9" -> 9

\* value of the longest run of digits of s that starts at position i, given the value acc so far
RECURSIVE DigitRun(_, _, _)
DigitRun(s, i, acc) ==
    IF i > Len(s) \/ s[i] \notin Digits THEN acc
    ELSE DigitRun(s, i + 1, acc * 10 + DigitVal(s[i]))

NaN == [nan |-> TRUE, val |-> 0]

\* parseInt(s): an optional sign, then the leading digits; NaN when there is no digit
parseInt(s) ==
    LET signed == Len(s) >= 1 /\ s[1] \in {"-", "+"}
        first  == IF signed THEN 2 ELSE 1
        sign   == IF signed /\ s[1] = "-" THEN -1 ELSE 1
    IN  IF first > Len(s) \/ s[first] \notin Digits
        THEN NaN
        ELSE [nan |-> FALSE, val |-> sign * DigitRun(s, first, 0)]

\* isNaN(newCap) || newCap < 0 || newCap > 10000000
ResetRejected(newCap) == newCap.nan \/ newCap.val < 0 \/ newCap.val > MaxCapital

----------------------------------------------------------------------------
(* Security records, stockUtils.ts                                         *)

Null == [symbol |-> "", name |-> "", price |-> 0, change |-> 0, changePercent |-> 0,
         volume |-> 0, history |-> <<>>, ma5 |-> FracOfInt(0), ma10 |-> FracOfInt(0),
         ma20 |-> FracOfInt(0), obv |-> 0, isNull |-> TRUE]

\* a record as INITIAL_STOCKS and handleSearch create it: no history, no indicators
FreshStock(sym, name, price) ==
    [symbol |-> sym, name |-> name, price |-> price, change |-> 0, changePercent |-> 0,
     volume |-> 0, history |-> <<>>, ma5 |-> FracOfInt(0), ma10 |-> FracOfInt(0),
     ma20 |-> FracOfInt(0), obv |-> 0, isNull |-> FALSE]

INITIAL_STOCKS ==
    << FreshStock("2330", "TSMC", 1080), FreshStock("2317", "HonHai", 210),
       FreshStock("2454", "MediaTek", 1260), FreshStock("2603", "Evergreen", 215) >>

HistoryLength == 30

RECURSIVE SumSeq(_)
SumSeq(q) == IF q = <<>> THEN 0 ELSE Head(q) + SumSeq(Tail(q))

\* data.slice(-period)
LastN(data, period) == SubSeq(data, Len(data) - period + 1, Len(data))

\* Number(x.toFixed(2)) for x = f >= 0: the nearest multiple of 0.01, a tie going up
ToFixed2(f) == Frac((2 * 100 * f.n + f.d) \div (2 * f.d), 100)

\* slip: the mean is cut to 2 decimal places, never rounded up
calculateSMAOf_truncates(data, period, unit) ==
    IF Len(data) < period THEN FracOfInt(0)
    ELSE Frac((100 * SumSeq(LastN(data, period))) \div (period * unit), 100)

\* slip: data.slice(0, period), the mean of the oldest entries
calculateSMAOf_firstEntries(data, period, unit) ==
    IF Len(data) < period THEN FracOfInt(0)
    ELSE ToFixed2(Frac(SumSeq(SubSeq(data, 1, period)), period * unit))

\* calculateSMA(data, period) on numbers written as whole multiples of 1/unit
calculateSMAOf(data, period, unit) ==
    IF Len(data) < period THEN FracOfInt(0)
    ELSE ToFixed2(Frac(SumSeq(LastN(data, period)), period * unit))

\* calculateSMA(data, period) on whole numbers
calculateSMA(data, period) == calculateSMAOf(data, period, 1)

\* The random walks generateHistory can return are drawn from three shapes: every
\* Math.random() equal to 0.5 ("flat"), or steps of one unit towards ("rise") or away from
\* ("fall") the current price.  A step is at most 1% of the price it starts from, so the unit
\* steps exist only for prices that stay at 100 or more along the walk.
WalkShapes(currentPrice) ==
    IF currentPrice >= 100 + HistoryLength THEN {"flat", "rise", "fall"} ELSE {"flat"}

\* slip: history.push(price), the current price first and the walk after it
generateHistory_push(currentPrice, shape) ==
    [i \in 1..HistoryLength |->
        CASE shape = "flat" -> currentPrice
          [] shape = "rise" -> currentPrice - (i - 1)
          [] shape = "fall" -> currentPrice + (i - 1)]

\* generateHistory(currentPrice), the walk of the given shape: 30 prices, the last one current
generateHistory(currentPrice, shape) ==
    [i \in 1..HistoryLength |->
        CASE shape = "flat" -> currentPrice
          [] shape = "rise" -> currentPrice - (HistoryLength - i)
          [] shape = "fall" -> currentPrice + (HistoryLength - i)]

(* A partial quote: each optional field is <<>> when absent and <<v>> when present. *)
Quote(sym, price, change, changePercent, volume) ==
    [symbol |-> sym, price |-> price, change |-> change,
     changePercent |-> changePercent, volume |-> volume]

Present(field) == field # <<>>

\* a || b  for an optional number a: b when a is absent or 0
OrElse(field, fallback) == IF Present(field) /\ field[1] # 0 THEN field[1] ELSE fallback

\* slip: an absent field reads as 0
DefinedOr_absentIsZero(field, fallback) == IF Present(field) THEN field[1] ELSE 0

\* a !== undefined ? a : b
DefinedOr(field, fallback) == IF Present(field) THEN field[1] ELSE fallback

\* slip: the new price is appended and the oldest one is kept
newHistoryOf_noSlice(history, newPrice, shape) ==
    IF Len(history) = 0 THEN generateHistory(newPrice, shape)
    ELSE Append(history, newPrice)

\* slip: the newest entry is dropped for the new price, the oldest one stays
newHistoryOf_dropsNewest(history, newPrice, shape) ==
    IF Len(history) = 0 THEN generateHistory(newPrice, shape)
    ELSE Append(SubSeq(history, 1, Len(history) - 1), newPrice)

\* newHistory, stockUtils.ts:131-138: a generated walk when there is no history, otherwise
\* [...newHistory.slice(1), newPrice]
newHistoryOf(history, newPrice, shape) ==
    IF Len(history) = 0 THEN generateHistory(newPrice, shape)
    ELSE Append(Tail(history), newPrice)

\* slip: on-balance volume proper, the volume signed by the direction of the price
newObv_signed(existingStock, realData, newPrice) ==
    existingStock.obv + Sign(newPrice - existingStock.price) * OrElse(realData.volume, 0)

\* existingStock.obv + (realData.volume || 0), stockUtils.ts:150
newObv(existingStock, realData, newPrice) ==
    existingStock.obv + OrElse(realData.volume, 0)

\* updateStockWithRealData(existingStock, realData); shape picks the walk when one is generated
updateStockWithRealData(existingStock, realData, shape) ==
    LET newPrice   == OrElse(realData.price, existingStock.price)
        newHistory == newHistoryOf(existingStock.history, newPrice, shape)
    IN  [existingStock EXCEPT
            !.price         = newPrice,
            !.change        = DefinedOr(realData.change, existingStock.change),
            !.changePercent = DefinedOr(realData.changePercent, existingStock.changePercent),
            !.volume        = OrElse(realData.volume, existingStock.volume),
            !.history       = newHistory,
            !.ma5           = calculateSMA(newHistory, 5),
            !.ma10          = calculateSMA(newHistory, 10),
            !.ma20          = calculateSMA(newHistory, 20),
            !.obv           = newObv(existingStock, realData, newPrice)]

----------------------------------------------------------------------------
(* getMarketStatus, stockUtils.ts:92-113                                   *)

\* An instant is a number of minutes m since a Sunday 00:00 UTC, read by a browser whose
\* time zone is zone.  A zone is its offset from UTC in minutes, east positive, before and
\* from the minute at which its clocks are set forward or back (equal offsets: no change).
Zone(before, switch, after) == [before |-> before, switch |-> switch, after |-> after]

Week == 7 * 24 * 60

\* minutes since Sunday 00:00 UTC of the second week, from a day and a time of day
At(day, hour, minute) == Week + day * 24 * 60 + hour * 60 + minute

Taipei  == Zone(8 * 60, 0, 8 * 60)
NewYork == Zone(-5 * 60, 0, -5 * 60)
\* Africa/Cairo in the week its summer time ends: Friday 00:00 local, Thursday 21:00 UTC
Cairo   == Zone(3 * 60, At(4, 21, 0), 2 * 60)

offsetAt(zone, m) == IF m >= zone.switch THEN zone.after ELSE zone.before

\* now.getTimezoneOffset(): minutes to add to local time to get UTC
getTimezoneOffset(zone, m) == -offsetAt(zone, m)

\* getDay() and getHours() * 60 + getMinutes() of new Date(m): fields of the local time
LocalFields(zone, m) ==
    LET local == m + offsetAt(zone, m)
    IN  [day |-> (local \div (24 * 60)) % 7, minute |-> local % (24 * 60)]

\* lines 93-100: twTime is the Date shifted by the zone's offset at now and by 8 hours,
\* and its fields are read in the browser's zone
TwTime(instant) ==
    LET utc == instant.m + getTimezoneOffset(instant.zone, instant.m)
    IN  LocalFields(instant.zone, utc + 8 * 60)

openTime  == 9 * 60
closeTime == 13 * 60 + 30

getMarketStatus(instant) ==
    LET tw == TwTime(instant)
        timeVal == tw.minute
    IN  IF tw.day = 0 \/ tw.day = 6 THEN "CLOSED"
        ELSE IF timeVal >= openTime /\ timeVal <= closeTime THEN "OPEN"
        ELSE IF timeVal < openTime THEN "PRE_MARKET"
        ELSE "CLOSED"

Instant(m, zone) == [m |-> m, zone |-> zone]

\* the instants at which the scheduler is observed, in a browser in Taiwan
Instants ==
    { Instant(At(2, 1, 15), Taipei),     \* Tuesday 09:15 in Taiwan
      Instant(At(2, 0, 59), Taipei),     \* Tuesday 08:59
      Instant(At(2, 5, 31), Taipei),     \* Tuesday 13:31
      Instant(At(5, 16, 40), Taipei) }   \* Saturday 00:40

\* times of day in Taiwan around which the classification changes
BoundaryMinutes == {0, 30, 539, 540, 555, 810, 811, 1439}

\* the instants at which the clock is classified: every day of the week in Taiwan at the
\* boundary times, in each of the three browsers
ClockInstants ==
    { Instant(At(day, 0, minute) - 8 * 60, zone) :
        day \in 0..6, minute \in BoundaryMinutes, zone \in {Taipei, NewYork, Cairo} }

NoInstant == Instant(0, Taipei)

----------------------------------------------------------------------------
(* refreshPrices and the mount effect, App.tsx:37-102                      *)

\* symbols of a list of records, in order, each once
RECURSIVE SymbolsOf(_)
SymbolsOf(list) ==
    IF list = <<>> THEN <<>>
    ELSE LET rest == SymbolsOf(Tail(list))
         IN  IF \E i \in 1..Len(rest) : rest[i] = Head(list).symbol
             THEN <<Head(list).symbol>> \o SelectSeq(rest, LAMBDA x : x # Head(list).symbol)
             ELSE <<Head(list).symbol>> \o rest

\* The values of isUpdating, stocks and selectedStock that a render's refreshPrices sees.
RenderClosure(updating, list, selected) ==
    [isUpdating |-> updating, stocks |-> list, selectedStock |-> selected]

\* The effect has no dependencies: it runs after the first render only, and the
\* refreshPrices it calls, at once and from the interval, is the one of the first render.
\* That function sees the first render's state: useState(false), INITIAL_STOCKS, null.
MountClosure == RenderClosure(FALSE, INITIAL_STOCKS, Null)

\* symbolsToFetch: the watchlist symbols, and the selected symbol if it is not among them
symbolsToFetch(c) ==
    LET listed == SymbolsOf(c.stocks)
    IN  IF c.selectedStock.isNull \/ (\E i \in 1..Len(listed) : listed[i] = c.selectedStock.symbol)
        THEN listed
        ELSE Append(listed, c.selectedStock.symbol)

\* realDataList.find(r => r.symbol === symbol): the first entry of the symbol, <<>> if none
RECURSIVE Find(_, _)
Find(realDataList, symbol) ==
    IF realDataList = <<>> THEN <<>>
    ELSE IF Head(realDataList).symbol = symbol THEN <<Head(realDataList)>>
    ELSE Find(Tail(realDataList), symbol)

\* refreshPrices() of closure c up to its await: the guard, the flag, the request
refreshStart(c) ==
    IF c.isUpdating
    THEN UNCHANGED <<isUpdating, issued, inflight>>
    ELSE IF Len(symbolsToFetch(c)) = 0
         THEN /\ isUpdating' = FALSE
              /\ UNCHANGED <<issued, inflight>>
         ELSE /\ isUpdating' = TRUE
              /\ issued' = issued + 1
              /\ inflight' = inflight \cup
                    {[id |-> issued + 1, symbols |-> symbolsToFetch(c), closure |-> c]}

\* the refresh started by the call: was a request sent
Started == issued' = issued + 1

\* the effect: lines 84-97
MountEffect(utc) ==
    /\ phase = "rendered"
    /\ phase' = "mounted"
    /\ marketStatus' = getMarketStatus(utc)
    /\ refreshStart(MountClosure)
    /\ lastEvent' = [ev |-> "mount", status |-> getMarketStatus(utc),
                     pending |-> Cardinality(inflight), started |-> Started,
                     data |-> <<>>, before |-> stocks, applied |-> FALSE, at |-> utc]
    /\ UNCHANGED <<stocks, selectedStock, lastUpdate>>

\* the same, refreshPrices called whatever the status
IntervalTick_alwaysFetches(utc) ==
    /\ phase = "mounted"
    /\ issued < MaxRequests
    /\ marketStatus' = getMarketStatus(utc)
    /\ refreshStart(MountClosure)
    /\ lastEvent' = [ev |-> "tick", status |-> getMarketStatus(utc),
                     pending |-> Cardinality(inflight), started |-> Started,
                     data |-> <<>>, before |-> stocks, applied |-> FALSE, at |-> utc]
    /\ UNCHANGED <<stocks, selectedStock, lastUpdate, phase>>

\* the interval callback: lines 91-97
IntervalTick(utc) ==
    /\ phase = "mounted"
    /\ issued < MaxRequests
    /\ marketStatus' = getMarketStatus(utc)
    /\ IF getMarketStatus(utc) = "OPEN"
       THEN refreshStart(MountClosure)
       ELSE UNCHANGED <<isUpdating, issued, inflight>>
    /\ lastEvent' = [ev |-> "tick", status |-> getMarketStatus(utc),
                     pending |-> Cardinality(inflight), started |-> Started,
                     data |-> <<>>, before |-> stocks, applied |-> FALSE, at |-> utc]
    /\ UNCHANGED <<stocks, selectedStock, lastUpdate, phase>>

\* the cleanup of the effect: lines 99-101
Unmount ==
    /\ phase = "mounted"
    /\ phase' = "unmounted"
    /\ lastEvent' = [ev |-> "unmount", status |-> marketStatus,
                     pending |-> Cardinality(inflight), started |-> FALSE,
                     data |-> <<>>, before |-> stocks, applied |-> FALSE, at |-> NoInstant]
    /\ UNCHANGED <<stocks, selectedStock, marketStatus, lastUpdate, isUpdating, issued, inflight>>

\* the same, a record without a quote merged with an empty one
MergeList_rollsAll(prevStocks, realDataList, shapeOf) ==
    [i \in 1..Len(prevStocks) |->
        LET data == Find(realDataList, prevStocks[i].symbol)
        IN  IF data # <<>>
            THEN updateStockWithRealData(prevStocks[i], data[1], shapeOf[prevStocks[i].symbol])
            ELSE updateStockWithRealData(prevStocks[i],
                                         Quote(prevStocks[i].symbol, <<>>, <<>>, <<>>, <<>>),
                                         "flat")]

\* slip: a quote whose symbol is not on the list is added to it as a new record
MergeList_upserts(prevStocks, realDataList, shapeOf) ==
    LET unlisted == SelectSeq(realDataList,
                              LAMBDA q : \A i \in 1..Len(prevStocks) :
                                            prevStocks[i].symbol # q.symbol)
    IN  [i \in 1..Len(prevStocks) |->
            LET data == Find(realDataList, prevStocks[i].symbol)
            IN  IF data # <<>>
                THEN updateStockWithRealData(prevStocks[i], data[1],
                                             shapeOf[prevStocks[i].symbol])
                ELSE prevStocks[i]]
        \o [j \in 1..Len(unlisted) |->
               FreshStock(unlisted[j].symbol, NameOf(unlisted[j].symbol),
                          OrElse(unlisted[j].price, 0))]

\* the map of setStocks: lines 56-64
MergeList(prevStocks, realDataList, shapeOf) ==
    [i \in 1..Len(prevStocks) |->
        LET data == Find(realDataList, prevStocks[i].symbol)
        IN  IF data # <<>>
            THEN updateStockWithRealData(prevStocks[i], data[1], shapeOf[prevStocks[i].symbol])
            ELSE prevStocks[i]]

\* the update of the selected record: lines 67-72
MergeSelected(prev, c, realDataList, shapeOf) ==
    IF c.selectedStock.isNull THEN prev
    ELSE LET data == Find(realDataList, c.selectedStock.symbol)
         IN  IF data = <<>> THEN prev
             ELSE IF prev.isNull THEN Null
             ELSE updateStockWithRealData(prev, data[1], shapeOf[prev.symbol])

\* the symbols of the watchlist and of the lookups
AllSymbols == {"2330", "2317", "2454", "2603", "2882"}

\* observer: for each symbol, the price of its record after the merge just made, when one was
\* made for it (on the watchlist, lines 56-64, or on the selected record, lines 67-72)
MergedPrices(newStocks, newSelected, c, realDataList) ==
    [sym \in AllSymbols |->
        IF Find(realDataList, sym) = <<>> THEN merged[sym]
        ELSE IF \E i \in 1..Len(newStocks) : newStocks[i].symbol = sym
        THEN <<newStocks[CHOOSE i \in 1..Len(newStocks) : newStocks[i].symbol = sym].price>>
        ELSE IF ~c.selectedStock.isNull /\ c.selectedStock.symbol = sym /\ ~newSelected.isNull
        THEN <<newSelected.price>>
        ELSE merged[sym]]

\* the quote lists the provider answers with (getRealTimeStockQuotes returns [] when it fails)
Responses ==
    { <<>>,
      << Quote("2330", <<1085>>, <<5>>, <<1>>, <<300>>) >>,
      << Quote("2330", <<>>, <<>>, <<>>, <<>>), Quote("2317", <<205>>, <<-5>>, <<-2>>, <<>>) >>,
      << Quote("2317", <<0>>, <<0>>, <<0>>, <<0>>) >> }

\* the walks the merges of one response may generate: one choice per symbol that needs one
ShapeChoices(list, realDataList) ==
    [AllSymbols -> {"flat", "rise", "fall"}] \cap
    { f \in [AllSymbols -> {"flat", "rise", "fall"}] :
        \A sym \in AllSymbols :
           LET data == Find(realDataList, sym)
               held == { i \in 1..Len(list) : list[i].symbol = sym }
           IN  IF data # <<>> /\ \E i \in held : Len(list[i].history) = 0
               THEN \A i \in held : f[sym] \in WalkShapes(OrElse(data[1].price, list[i].price))
               ELSE f[sym] = "flat" }

\* slip: the setters of a component that was torn down still reach its state
TornDown_never(ph) == FALSE

\* the component was torn down: React drops the state updates of an unmounted component
TornDown(ph) == ph = "unmounted"

\* slip: the flag is cleared only when the provider answered with quotes
isUpdatingAfter_onSuccessOnly(realDataList) == realDataList = <<>>

\* finally { setIsUpdating(false) }, lines 77-79: whatever the provider answered
isUpdatingAfter(realDataList) == FALSE

\* refreshPrices() of request r from its await on, the provider having answered realDataList.
\* A component that is no longer mounted has no state to set.
RefreshResolve(r, realDataList, shapeOf) ==
    /\ r \in inflight
    /\ inflight' = inflight \ {r}
    /\ IF TornDown(phase)
       THEN UNCHANGED <<stocks, selectedStock, lastUpdate, isUpdating>>
       ELSE /\ stocks' = MergeList(stocks, realDataList, shapeOf)
            /\ selectedStock' = MergeSelected(selectedStock, r.closure, realDataList, shapeOf)
            /\ lastUpdate' = now
            /\ isUpdating' = isUpdatingAfter(realDataList)
    /\ merged' = IF TornDown(phase) THEN merged
                 ELSE MergedPrices(MergeList(stocks, realDataList, shapeOf),
                                   MergeSelected(selectedStock, r.closure, realDataList, shapeOf),
                                   r.closure, realDataList)
    /\ lastEvent' = [ev |-> "resolve", status |-> marketStatus,
                     pending |-> Cardinality(inflight), started |-> FALSE,
                     data |-> realDataList, before |-> stocks, applied |-> ~TornDown(phase),
                     at |-> NoInstant]
    /\ UNCHANGED <<marketStatus, phase, issued>>

----------------------------------------------------------------------------
(* The AI analysis of the open sheet, geminiService.ts:10-70               *)

\* a response text is a list of JSON tokens; a JavaScript value is a scalar or a flat object
Punct(t) == [t |-> t, s |-> "", n |-> 0]
Str(s)   == [t |-> "str", s |-> s, n |-> 0]
Num(n)   == [t |-> "num", s |-> "", n |-> n]
JsNull   == [t |-> "null", s |-> "", n |-> 0]
IsScalar(tok) == tok.t \in {"str", "num", "null"}

JsValue(kind, scalar, members) == [kind |-> kind, scalar |-> scalar, members |-> members]
NoMembers == [k \in {} |-> JsNull]
JsObject(members) == JsValue("object", JsNull, members)

\* useState<AIAnalysisResult | null>(null), StockDetail.tsx:20
NoAnalysis == JsValue("null", JsNull, NoMembers)

\* the members between the braces: key : value, separated by commas
WellFormedMembers(inner) ==
    /\ Len(inner) % 4 = 3
    /\ \A i \in 1..Len(inner) :
          CASE i % 4 = 1 -> inner[i].t = "str"
            [] i % 4 = 2 -> inner[i].t = ":"
            [] i % 4 = 3 -> IsScalar(inner[i])
            [] OTHER     -> inner[i].t = ","

\* a repeated key keeps its last value
MembersOf(inner) ==
    LET keyAt == { i \in 1..Len(inner) : i % 4 = 1 }
        keys  == { inner[i].s : i \in keyAt }
        lastOf(k) == CHOOSE i \in keyAt :
                        /\ inner[i].s = k
                        /\ \A j \in keyAt : inner[j].s = k => j <= i
    IN  [k \in keys |-> inner[lastOf(k) + 2]]

\* JSON.parse(jsonStr), geminiService.ts:57: the value, or a SyntaxError
JSONParse(text) ==
    IF Len(text) = 1 /\ IsScalar(text[1])
    THEN [ok |-> TRUE,
          value |-> JsValue(IF text[1].t = "null" THEN "null" ELSE text[1].t, text[1], NoMembers)]
    ELSE IF Len(text) >= 2 /\ text[1].t = "{" /\ text[Len(text)].t = "}"
    THEN LET inner == SubSeq(text, 2, Len(text) - 1)
         IN  IF inner = <<>> THEN [ok |-> TRUE, value |-> JsObject(NoMembers)]
             ELSE IF WellFormedMembers(inner)
             THEN [ok |-> TRUE, value |-> JsObject(MembersOf(inner))]
             ELSE [ok |-> FALSE, value |-> NoAnalysis]
    ELSE [ok |-> FALSE, value |-> NoAnalysis]

\* the object of the catch block, geminiService.ts:60-68
FallbackAnalysis ==
    JsObject([k \in {"recommendation", "confidence", "summary", "technicalAnalysis",
                     "fundamentalAnalysis"} |->
                 CASE k = "recommendation" -> Str("HOLD")
                   [] k = "confidence"     -> Num(0)
                   [] k = "summary"        -> Str("busy")
                   [] OTHER                -> Str("no data")])

\* what generateContent does: it rejects, or resolves with a response whose text is
\* undefined (<<>>) or a string (<<tokens>>)
Outcome(thrown, text) == [thrown |-> thrown, text |-> text]

Returned(value) == [threw |-> FALSE, value |-> value]
Thrown == [threw |-> TRUE, value |-> NoAnalysis]

\* the same, JSON.parse standing after the try block
analyzeStockWithAI_parseOutsideTry(stock, outcome) ==
    IF outcome.thrown THEN Returned(FallbackAnalysis)
    ELSE IF outcome.text = <<>> \/ outcome.text[1] = <<>> THEN Returned(FallbackAnalysis)
    ELSE IF JSONParse(outcome.text[1]).ok THEN Returned(JSONParse(outcome.text[1]).value)
    ELSE Thrown

\* analyzeStockWithAI(stock), geminiService.ts:10-70: every throw of the try block, that of
\* the missing text and that of JSON.parse included, ends in the catch block
analyzeStockWithAI(stock, outcome) ==
    IF outcome.thrown THEN Returned(FallbackAnalysis)
    ELSE IF outcome.text = <<>> \/ outcome.text[1] = <<>> THEN Returned(FallbackAnalysis)
    ELSE IF JSONParse(outcome.text[1]).ok THEN Returned(JSONParse(outcome.text[1]).value)
    ELSE Returned(FallbackAnalysis)

\* the payloads the schema asks for (geminiService.ts:38-52)
Payload(recommendation, confidence) ==
    << Punct("{"), Str("recommendation"), Punct(":"), Str(recommendation), Punct(","),
       Str("confidence"), Punct(":"), Num(confidence), Punct(","),
       Str("summary"), Punct(":"), Str("text"), Punct(","),
       Str("technicalAnalysis"), Punct(":"), Str("text"), Punct(","),
       Str("fundamentalAnalysis"), Punct(":"), Str("text"), Punct("}") >>

Confidences == { 10 * i : i \in 0..10 }

Outcomes ==
    {Outcome(TRUE, <<>>), Outcome(FALSE, <<>>), Outcome(FALSE, << <<>> >>)}
    \cup { Outcome(FALSE, <<text>>) :
             text \in { <<Punct("sorry")>>,
                        <<Punct("{"), Str("recommendation"), Punct(":"), Str("BUY")>>,
                        <<Punct("{"), Str("recommendation"), Str("BUY"), Punct("}")>>,
                        <<Punct("{"), Str("confidence"), Punct(":"), Num(90), Punct(","),
                          Punct("}")>>,
                        <<JsNull>>, <<Num(7)>>, <<Punct("{"), Punct("}")>> } }
    \cup { Outcome(FALSE, <<Payload(rec, conf)>>) :
             rec \in {"BUY", "SELL", "HOLD"}, conf \in Confidences }

\* the effect of the sheet, StockDetail.tsx:38-50, from its await on: the sheet still open
\* on the stock it was opened on, the result is kept.  A rejection of analyzeStockWithAI
\* would leave the state as it is.
AnalysisResolve(outcome) ==
    /\ ~selectedStock.isNull
    /\ analysis = NoAnalysis
    /\ LET result == analyzeStockWithAI(selectedStock, outcome)
       IN  /\ analysis' = IF result.threw THEN analysis ELSE result.value
           /\ lastEvent' = [ev |-> "analysis", status |-> marketStatus,
                            pending |-> Cardinality(inflight), started |-> FALSE,
                            data |-> <<outcome>>, before |-> stocks,
                            applied |-> ~result.threw, at |-> NoInstant]
    /\ UNCHANGED <<stocks, selectedStock, marketStatus, lastUpdate, isUpdating, phase, issued,
                   inflight, searching, merged, appMode, toggles>>

----------------------------------------------------------------------------
InitMarket ==
    /\ stocks = INITIAL_STOCKS
    /\ selectedStock = Null
    /\ marketStatus = "CLOSED"
    /\ lastUpdate = 0
    /\ isUpdating = FALSE
    /\ phase = "rendered"
    /\ issued = 0
    /\ inflight = {}
    /\ lastEvent = [ev |-> "init", status |-> "CLOSED", pending |-> 0, started |-> FALSE,
                    data |-> <<>>, before |-> INITIAL_STOCKS, applied |-> FALSE,
                    at |-> NoInstant]
    /\ searching = <<>>
    /\ merged = [sym \in AllSymbols |-> <<>>]
    /\ appMode = "MARKET"
    /\ analysis = NoAnalysis
    /\ toggles = 0

----------------------------------------------------------------------------
(* Observer of the last handler calls                                      *)

NoCall == [op |-> "init", side |-> "", stock |-> NoStock, quantity |-> 0, input |-> <<>>,
           prev |-> NewPortfolio(0), prevCapital |-> 0, alert |-> FALSE]


TradeCall(type, stock, quantity) ==
    [op |-> "trade", side |-> type, stock |-> stock, quantity |-> quantity, input |-> <<>>,
     prev |-> portfolio, prevCapital |-> initialCapital, alert |-> FALSE]

ResetCall(input) ==
    [op |-> "reset", side |-> "", stock |-> NoStock, quantity |-> 0, input |-> input,
     prev |-> portfolio, prevCapital |-> initialCapital, alert |-> FALSE]

----------------------------------------------------------------------------
(* Initial state and actions                                               *)

InitLedger ==
    /\ initialCapital = 5000000
    /\ portfolio = NewPortfolio(5000000)
    /\ now = 0
    /\ lastOp = NoCall
    /\ prior = NoCall

\* handleTrade(type, stock, quantity)
handleTrade(type, stock, quantity) ==
    /\ Len(portfolio.history) < MaxTrades
    /\ portfolio' = tradeUpdater(portfolio, type, stock, quantity, now)
    /\ lastOp' = TradeCall(type, stock, quantity)
    /\ UNCHANGED <<initialCapital, now>>

\* slip: the reset keeps the trade history of the old portfolio
handleResetPortfolio_keepsHistory(input) ==
    LET newCap == parseInt(input)
    IN  /\ IF ResetRejected(newCap)
           THEN UNCHANGED <<initialCapital, portfolio>>
           ELSE /\ initialCapital' = newCap.val
                /\ portfolio' = [NewPortfolio(newCap.val) EXCEPT !.history = portfolio.history]
        /\ lastOp' = [ResetCall(input) EXCEPT !.alert = ResetRejected(newCap)]
        /\ UNCHANGED now

\* handleResetPortfolio() with tempCapitalInput = input
handleResetPortfolio(input) ==
    LET newCap == parseInt(input)
    IN  /\ IF ResetRejected(newCap)
           THEN UNCHANGED <<initialCapital, portfolio>>
           ELSE /\ initialCapital' = newCap.val
                /\ portfolio' = NewPortfolio(newCap.val)
        /\ lastOp' = [ResetCall(input) EXCEPT !.alert = ResetRejected(newCap)]
        /\ UNCHANGED now

\* time passes
AdvanceClock ==
    /\ now < MaxClock
    /\ now' = now + 1
    /\ UNCHANGED <<portfolio, initialCapital, lastOp>>

Trade == \E type \in Sides, stock \in TradeStocks, quantity \in Quantities :
            handleTrade(type, stock, quantity)

RawTrade == \E type \in Sides, stock \in TradeStocks, quantity \in RawQuantities :
               handleTrade(type, stock, quantity)

Reset == \E input \in CapitalInputs : handleResetPortfolio(input)

----------------------------------------------------------------------------
(* The detail sheet and the search, App.tsx:105-174 and StockDetail.tsx    *)

\* what handleTrade reads of the record it is given
AsTraded(stock) == [symbol |-> stock.symbol, name |-> stock.name, price |-> stock.price]

\* holding?.quantity || 0, StockDetail.tsx:32-33
holdingQty(p, stock) ==
    IF HasHolding(p.holdings, stock.symbol) THEN p.holdings[stock.symbol].quantity ELSE 0

\* maxBuy < quantity, with maxBuy = Math.floor(cash / stock.price), StockDetail.tsx:34-36.
\* At price 0 the quotient is Infinity (cash > 0) or NaN (cash = 0): neither is below quantity.
maxBuyBelow(p, stock, quantity) ==
    IF stock.price = 0 THEN FALSE ELSE (p.cash \div stock.price) < quantity

\* the disabled attribute of the trade button, StockDetail.tsx:196
TradeDisabled(p, stock, tradeTab, quantity) ==
    \/ tradeTab = "BUY" /\ maxBuyBelow(p, stock, quantity)
    \/ tradeTab = "SELL" /\ holdingQty(p, stock) < quantity
    \/ quantity <= 0

\* handleStockClick(stock), App.tsx:172-174: a row of the list is clicked.  The sheet, once
\* open, covers the list and the search bar (StockDetail.tsx:86, fixed inset-0).
handleStockClick(stock) ==
    /\ phase = "mounted"
    /\ selectedStock.isNull
    /\ selectedStock' = stock
    /\ UNCHANGED <<stocks, marketStatus, lastUpdate, isUpdating, phase, issued, inflight,
                   lastEvent, searching, merged, appMode, analysis, toggles>>

\* onClose, App.tsx:572
CloseDetail ==
    /\ ~selectedStock.isNull
    /\ selectedStock' = Null
    /\ analysis' = NoAnalysis
    /\ UNCHANGED <<stocks, marketStatus, lastUpdate, isUpdating, phase, issued, inflight,
                   lastEvent, searching, merged, appMode, toggles>>

\* the same, the symbol never looked up in the list
toggleUpdater_alwaysPrepends(prev, stock) == <<stock>> \o prev

\* the updater of toggleWatchlist, App.tsx:162-169
toggleUpdater(prev, stock) ==
    IF \E i \in 1..Len(prev) : prev[i].symbol = stock.symbol
    THEN SelectSeq(prev, LAMBDA s : s.symbol # stock.symbol)
    ELSE <<stock>> \o prev

\* toggleWatchlist(stock), App.tsx:161-170
toggleWatchlist(stock) ==
    /\ toggles < MaxToggles
    /\ toggles' = toggles + 1
    /\ stocks' = toggleUpdater(stocks, stock)
    /\ lastEvent' = [ev |-> "toggle", status |-> marketStatus,
                     pending |-> Cardinality(inflight), started |-> FALSE,
                     data |-> <<>>, before |-> stocks, applied |-> TRUE, at |-> NoInstant]
    /\ UNCHANGED <<selectedStock, marketStatus, lastUpdate, isUpdating, phase, issued,
                   inflight, searching, merged, appMode, analysis>>

\* the star of the open sheet, App.tsx:577, StockDetail.tsx:100
Toggle == ~selectedStock.isNull /\ toggleWatchlist(selectedStock)

\* handleExecuteTrade, StockDetail.tsx:67-82, the trade panel being shown (SIMULATION mode,
\* StockDetail.tsx:132) and its button enabled: the trade is issued on the record the sheet
\* shows, then the sheet closes
handleExecuteTrade(tradeTab, quantity) ==
    /\ ~selectedStock.isNull
    /\ appMode = "SIMULATION"
    /\ Len(portfolio.history) < MaxPanelTrades
    /\ ~TradeDisabled(portfolio, selectedStock, tradeTab, quantity)
    /\ quantity > 0
    /\ handleTrade(tradeTab, AsTraded(selectedStock), quantity)
    /\ selectedStock' = Null
    /\ analysis' = NoAnalysis
    /\ UNCHANGED <<stocks, marketStatus, lastUpdate, isUpdating, phase, issued, inflight,
                   lastEvent, searching, merged, appMode, toggles>>

\* what is typed in the search bar: nothing, a symbol of the list, a name that is not on it
Queries == {"", "2330", "Cathay"}

\* stocks.find(s => s.symbol === searchQuery || s.name.includes(searchQuery)); for the
\* queries above a name includes the query only when it equals it
FindListed(list, query) ==
    LET hits == { i \in 1..Len(list) : list[i].symbol = query \/ list[i].name = query }
    IN  IF hits = {} THEN <<>>
        ELSE <<list[CHOOSE i \in hits : \A j \in hits : i <= j]>>

\* handleSearch up to its first await, App.tsx:105-119.  The search button is disabled while
\* a search is running (App.tsx:300).
handleSearch(query) ==
    /\ phase = "mounted"
    /\ selectedStock.isNull
    /\ searching = <<>>
    /\ IF query = ""
       THEN UNCHANGED <<selectedStock, searching>>
       ELSE IF FindListed(stocks, query) # <<>>
       THEN /\ selectedStock' = FindListed(stocks, query)[1]
            /\ UNCHANGED searching
       ELSE /\ searching' = <<query>>
            /\ UNCHANGED selectedStock
    /\ UNCHANGED <<stocks, marketStatus, lastUpdate, isUpdating, phase, issued, inflight,
                   lastEvent, merged, appMode, analysis, toggles>>

\* what searchStockSymbol resolves to: null, or the symbol and name it found
SearchResults == { <<>>, <<[symbol |-> "2882", name |-> "Cathay"]>> }

\* what getRealTimeStockQuotes([symbol]) resolves to for the record just created
SearchQuotes == { <<>>, << Quote("2882", <<55>>, <<1>>, <<2>>, <<100>>) >> }

\* handleSearch from its first await on, App.tsx:120-158: the answer of the lookup and,
\* if it found a symbol, of the quote fetch for it
SearchResolve(result, quotes, shape) ==
    /\ searching # <<>>
    /\ searching' = <<>>
    /\ IF result = <<>>
       THEN UNCHANGED <<selectedStock, merged>>
       ELSE LET newStock == FreshStock(result[1].symbol, result[1].name, 0)
            IN  IF Len(quotes) > 0
                THEN /\ selectedStock' = updateStockWithRealData(newStock, quotes[1], shape)
                     /\ merged' = [merged EXCEPT ![result[1].symbol] = <<selectedStock'.price>>]
                ELSE /\ selectedStock' = newStock
                     /\ UNCHANGED merged
    /\ UNCHANGED <<stocks, marketStatus, lastUpdate, isUpdating, phase, issued, inflight,
                   lastEvent, appMode, analysis, toggles>>

\* setAppMode(mode), App.tsx:359,365,514: the mode buttons lie under the open sheet
setAppMode(mode) ==
    /\ phase = "mounted"
    /\ selectedStock.isNull
    /\ appMode' = mode
    /\ UNCHANGED <<stocks, selectedStock, marketStatus, lastUpdate, isUpdating, phase, issued,
                   inflight, lastEvent, searching, merged, analysis, toggles>>

\* the rows that can be clicked: in MARKET mode the watchlist (App.tsx:407-423), in
\* SIMULATION mode the holdings whose symbol is on the watchlist (App.tsx:464-478)
ClickableRows ==
    IF appMode = "MARKET" THEN { stocks[i] : i \in 1..Len(stocks) }
    ELSE { FindListed(stocks, sym)[1] :
             sym \in { h \in DOMAIN portfolio.holdings :
                          \E i \in 1..Len(stocks) : stocks[i].symbol = h } }

Click  == \E stock \in ClickableRows : handleStockClick(stock)
SwitchMode == \E mode \in {"MARKET", "SIMULATION"} : setAppMode(mode)
Search == \E query \in Queries : handleSearch(query)
SearchAnswer ==
    \E result \in SearchResults, quotes \in SearchQuotes :
       \E shape \in (IF quotes = <<>> THEN {"flat"} ELSE WalkShapes(OrElse(quotes[1].price, 0))) :
          SearchResolve(result, quotes, shape)
PanelTrade == \E tradeTab \in Sides, quantity \in Quantities :
                 handleExecuteTrade(tradeTab, quantity)

vars == <<portfolio, initialCapital, now, lastOp, prior, stocks, selectedStock, marketStatus,
          lastUpdate, isUpdating, phase, issued, inflight, lastEvent, searching, merged,
          appMode, analysis, toggles, pureCall>>

\* no function has been called on its own yet
NoPureCall == [fn |-> "none"]

Init == InitLedger /\ InitMarket /\ pureCall = NoPureCall

Next ==
    \/ Trade /\ UNCHANGED <<prior, pureCall, marketVars>>
    \/ Reset /\ UNCHANGED <<prior, pureCall, marketVars>>

\* the ledger driven as the trade panel drives it: quantity >= 1; the clock stands still
Spec == Init /\ [][Next]_vars

NextRaw ==
    \/ RawTrade /\ UNCHANGED <<prior, pureCall, marketVars>>
    \/ AdvanceClock /\ UNCHANGED <<prior, pureCall, marketVars>>

\* the ledger with handleTrade called directly, any quantity
SpecRaw == Init /\ [][NextRaw]_vars

NextPairs ==
    \/ Trade /\ prior' = lastOp /\ UNCHANGED <<pureCall, marketVars>>
    \/ AdvanceClock /\ UNCHANGED <<prior, pureCall, marketVars>>

\* the ledger of Spec, with the call before the last one observed as well
SpecPairs == Init /\ [][NextPairs]_vars

Mount   == \E utc \in Instants : MountEffect(utc)
Tick    == \E utc \in Instants : IntervalTick(utc)
Resolve == \E r \in inflight, realDataList \in Responses :
              \E shapeOf \in ShapeChoices(stocks, realDataList) :
                 RefreshResolve(r, realDataList, shapeOf)

NextRefresh ==
    \/ Mount /\ UNCHANGED <<ledgerVars, now, prior, pureCall, searching, merged, appMode, analysis, toggles>>
    \/ Tick /\ UNCHANGED <<ledgerVars, now, prior, pureCall, searching, merged, appMode, analysis, toggles>>
    \/ Resolve /\ UNCHANGED <<ledgerVars, now, prior, pureCall, searching, appMode, analysis, toggles>>
    \/ Unmount /\ UNCHANGED <<ledgerVars, now, prior, pureCall, searching, merged, appMode, analysis, toggles>>
    \/ AdvanceClock /\ UNCHANGED <<prior, pureCall, marketVars>>

\* the scheduler: the mount effect, the interval, the provider's answers, the clean-up
SpecRefresh == Init /\ [][NextRefresh]_vars

\* getMarketStatus() evaluated at an instant, its result kept as setMarketStatus keeps it
\* (App.tsx:85, 92-93)
Classify(instant) ==
    /\ marketStatus' = getMarketStatus(instant)
    /\ lastEvent' = [ev |-> "clock", status |-> getMarketStatus(instant),
                     pending |-> Cardinality(inflight), started |-> FALSE,
                     data |-> <<>>, before |-> stocks, applied |-> FALSE, at |-> instant]
    /\ UNCHANGED <<stocks, selectedStock, lastUpdate, isUpdating, phase, issued, inflight,
                   searching, merged, appMode, analysis, toggles>>

NextClock == \E instant \in ClockInstants : Classify(instant) /\ UNCHANGED <<ledgerVars, now, prior, pureCall>>

\* the market clock alone, read at any of the instants in any of the browsers
SpecClock == Init /\ [][NextClock]_vars

NextPanel ==
    \/ Mount /\ UNCHANGED <<ledgerVars, now, prior, pureCall, searching, merged, appMode, analysis, toggles>>
    \/ Resolve /\ UNCHANGED <<ledgerVars, now, prior, pureCall, searching, appMode, analysis, toggles>>
    \/ Click /\ UNCHANGED <<ledgerVars, now, prior, pureCall>>
    \/ SwitchMode /\ UNCHANGED <<ledgerVars, now, prior, pureCall>>
    \/ Search /\ UNCHANGED <<ledgerVars, now, prior, pureCall>>
    \/ SearchAnswer /\ UNCHANGED <<ledgerVars, now, prior, pureCall>>
    \/ PanelTrade /\ UNCHANGED <<prior, pureCall>>
    \/ CloseDetail /\ UNCHANGED <<ledgerVars, now, prior, pureCall>>

\* the app as its user drives it: the list, the search, the detail sheet and its trade
\* panel, while the fetch of the mount effect is answered
SpecPanel == Init /\ [][NextPanel]_vars

\* the requests, toggles and trades made so far, capped together
WithinBudget == issued + toggles + Len(portfolio.history) < MaxAppSteps

\* the inputs of the run of the whole app: an instant of the session and one before it,
\* no answer or one quote
AppInstants == { Instant(At(2, 1, 15), Taipei), Instant(At(2, 0, 59), Taipei) }
AppResponses == { d \in Responses : d = <<>> \/ (Len(d) = 1 /\ d[1].symbol = "2330") }

AppMount == \E utc \in AppInstants : MountEffect(utc)
AppTick == issued < MaxPanelRequests /\ \E utc \in AppInstants : IntervalTick(utc)
AppResolve == \E r \in inflight, realDataList \in AppResponses :
                 \E shapeOf \in ShapeChoices(stocks, realDataList) :
                    RefreshResolve(r, realDataList, shapeOf)

\* the same, the toggle emptying the cash balance
AppToggle_spends ==
    /\ WithinBudget
    /\ Toggle
    /\ portfolio' = [portfolio EXCEPT !.cash = 0]
    /\ UNCHANGED <<initialCapital, lastOp, now, prior, pureCall>>

\* toggleWatchlist as a whole, App.tsx:161-170: it calls setStocks and nothing else
AppToggle == WithinBudget /\ Toggle /\ UNCHANGED <<ledgerVars, now, prior, pureCall>>

NextApp ==
    \/ AppMount /\ UNCHANGED <<ledgerVars, now, prior, pureCall, searching, merged, appMode, analysis,
                                toggles>>
    \/ WithinBudget /\ AppTick
          /\ UNCHANGED <<ledgerVars, now, prior, pureCall, searching, merged, appMode, analysis, toggles>>
    \/ AppResolve /\ UNCHANGED <<ledgerVars, now, prior, pureCall, searching, appMode, analysis, toggles>>
    \/ Click /\ UNCHANGED <<ledgerVars, now, prior, pureCall>>
    \/ SwitchMode /\ UNCHANGED <<ledgerVars, now, prior, pureCall>>
    \/ Search /\ UNCHANGED <<ledgerVars, now, prior, pureCall>>
    \/ SearchAnswer /\ UNCHANGED <<ledgerVars, now, prior, pureCall>>
    \/ AppToggle
    \/ WithinBudget /\ PanelTrade /\ UNCHANGED <<prior, pureCall>>
    \/ CloseDetail /\ UNCHANGED <<ledgerVars, now, prior, pureCall>>

\* the handlers of the app side by side: the scheduler, the list and its star, the search,
\* the sheet and its trade panel
SpecApp == Init /\ [][NextApp]_vars

\* the interval of the mount effect while the list is edited
PanelTick == issued < MaxPanelRequests /\ Tick

NextWatch ==
    \/ Mount /\ UNCHANGED <<ledgerVars, now, prior, pureCall, searching, merged, appMode, analysis,
                             toggles>>
    \/ PanelTick /\ UNCHANGED <<ledgerVars, now, prior, pureCall, searching, merged, appMode, analysis,
                                 toggles>>
    \/ Click /\ UNCHANGED <<ledgerVars, now, prior, pureCall>>
    \/ Search /\ UNCHANGED <<ledgerVars, now, prior, pureCall>>
    \/ SearchAnswer /\ UNCHANGED <<ledgerVars, now, prior, pureCall>>
    \/ Toggle /\ UNCHANGED <<ledgerVars, now, prior, pureCall>>
    \/ CloseDetail /\ UNCHANGED <<ledgerVars, now, prior, pureCall>>

\* the watchlist edited from the sheet while the scheduler sends its requests
SpecWatch == Init /\ [][NextWatch]_vars

\* the trades of the worked example: TSMC at 1080 and at 1100, in lots of 500 and 1000
ScenarioStocks == { StockAt("2330", 1080), StockAt("2330", 1100) }
ScenarioQuantities == {500, 1000}
ScenarioTrade == \E type \in Sides, stock \in ScenarioStocks, quantity \in ScenarioQuantities :
                    handleTrade(type, stock, quantity)

NextScenario == ScenarioTrade /\ UNCHANGED <<prior, pureCall, marketVars>>

\* the ledger from its first portfolio of 5,000,000, traded at the prices of the example
SpecScenario == Init /\ [][NextScenario]_vars

NextMerge ==
    \/ Mount /\ UNCHANGED <<ledgerVars, now, prior, pureCall, searching, merged, appMode,
                             analysis, toggles>>
    \/ PanelTick /\ UNCHANGED <<ledgerVars, now, prior, pureCall, searching, merged, appMode,
                                 analysis, toggles>>
    \/ Resolve /\ UNCHANGED <<ledgerVars, now, prior, pureCall, searching, appMode, analysis,
                               toggles>>

\* the scheduler of a mounted app and the answers to its first requests, merged one after
\* the other
SpecMerge == Init /\ [][NextMerge]_vars

\* calculateSMA called on its own.  The entries are thousandths, so that a mean can have more
\* than 2 decimal places: an older first entry one unit above a window that alternates
\* between two values a few thousandths apart.
SMAUnit    == 1000
SMAPeriods == {5, 10, 20}
SMALengths == {4, 5, 6, 10, 20, 21}
SMAValues  == {10000, 10004, 10005, 10006, 10020}
SMAData ==
    { [i \in 1..n |-> IF i = 1 THEN a + SMAUnit ELSE IF i % 2 = 0 THEN a ELSE b] :
        a \in SMAValues, b \in SMAValues, n \in SMALengths }

SMACall ==
    \E data \in SMAData, period \in SMAPeriods :
       /\ pureCall' = [fn |-> "calculateSMA", data |-> data, period |-> period,
                       unit |-> SMAUnit, result |-> calculateSMAOf(data, period, SMAUnit)]
       /\ UNCHANGED <<ledgerVars, now, prior, marketVars>>

NextSMA ==
    \/ Mount /\ UNCHANGED <<ledgerVars, now, prior, pureCall, searching, merged, appMode, analysis,
                             toggles>>
    \/ Resolve /\ UNCHANGED <<ledgerVars, now, prior, pureCall, searching, appMode, analysis,
                               toggles>>
    \/ SMACall

\* the averages of the merge of the first answer, and calculateSMA on entries of its own
SpecSMA == Init /\ [][NextSMA]_vars

\* prev as one call of the updater leaves it.  newPortfolio = { ...prev } copies the cash and
\* shares the holdings and history objects with prev, so that an accepted trade writes its
\* holding, its delete and its history.push into prev as well (App.tsx:223-266); a rejected
\* trade returns before any write.
prevAfterUpdater(prev, type, stock, quantity, t) ==
    LET newPortfolio == tradeUpdater(prev, type, stock, quantity, t)
    IN  [prev EXCEPT !.holdings = newPortfolio.holdings, !.history = newPortfolio.history]

\* the updater called twice with the same prev object, as a renderer that re-runs an update
\* does: what it returned the first time, what prev held afterwards, what it returned then
UpdaterRun(prev, type, stock, quantity, t) ==
    LET written == prevAfterUpdater(prev, type, stock, quantity, t)
    IN  [fn |-> "tradeUpdater", prev |-> prev,
         first  |-> tradeUpdater(prev, type, stock, quantity, t),
         prevAfter |-> written,
         second |-> tradeUpdater(written, type, stock, quantity, t)]

\* a trade of the panel, with what its updater would do to its argument
UpdaterCall ==
    \E type \in Sides, stock \in TradeStocks, quantity \in Quantities :
       /\ handleTrade(type, stock, quantity)
       /\ pureCall' = UpdaterRun(portfolio, type, stock, quantity, now)
       /\ UNCHANGED <<prior, marketVars>>

NextReducer ==
    \/ UpdaterCall
    \/ Reset /\ UNCHANGED <<prior, pureCall, marketVars>>

\* the ledger with the updater of every trade looked at as a function of its argument
SpecReducer == Init /\ [][NextReducer]_vars

Analyse == \E outcome \in Outcomes : AnalysisResolve(outcome)

NextAnalysis ==
    \/ Mount /\ UNCHANGED <<ledgerVars, now, prior, pureCall, searching, merged, appMode, analysis,
                             toggles>>
    \/ Click /\ UNCHANGED <<ledgerVars, now, prior, pureCall>>
    \/ Analyse /\ UNCHANGED <<ledgerVars, now, prior, pureCall>>
    \/ CloseDetail /\ UNCHANGED <<ledgerVars, now, prior, pureCall>>

\* the sheet opened on the records of the list, its analysis answered in every way
SpecAnalysis == Init /\ [][NextAnalysis]_vars

----------------------------------------------------------------------------
(* What the last call was, in the words of the claims                      *)

LastTrade(side) == lastOp.op = "trade" /\ lastOp.side = side

LastSymbol == lastOp.stock.symbol
LastPrice  == lastOp.stock.price
LastAmount == lastOp.stock.price * lastOp.quantity

\* shares of sym held in holdings, 0 when there is no holding
QuantityHeld(holdings, sym) == IF sym \in DOMAIN holdings THEN holdings[sym].quantity ELSE 0

\* the last call appended one record to the history: the trade was executed
Executed == Len(portfolio.history) = Len(lastOp.prev.history) + 1

\* every holding but the one of sym is what it was before the last call
OthersUntouched(sym) ==
    /\ (DOMAIN portfolio.holdings) \ {sym} = (DOMAIN lastOp.prev.holdings) \ {sym}
    /\ \A s \in (DOMAIN portfolio.holdings) \ {sym} : portfolio.holdings[s] = lastOp.prev.holdings[s]

\* position of the first character of s, at or after i, that is not a digit
RECURSIVE DigitEnd(_, _)
DigitEnd(s, i) == IF i > Len(s) \/ s[i] \notin Digits THEN i ELSE DigitEnd(s, i + 1)

RECURSIVE Pow10(_)
Pow10(k) == IF k = 0 THEN 1 ELSE 10 * Pow10(k - 1)

\* the number a text denotes: an optional sign, digits, an optional fraction; any other
\* text, the empty one included, is not a number
NumberOf(s) ==
    LET signed  == Len(s) >= 1 /\ s[1] \in {"-", "+"}
        first   == IF signed THEN 2 ELSE 1
        sign    == IF signed /\ s[1] = "-" THEN -1 ELSE 1
        intEnd  == DigitEnd(s, first)
        hasFrac == intEnd <= Len(s) /\ s[intEnd] = "."
        fracEnd == IF hasFrac THEN DigitEnd(s, intEnd + 1) ELSE intEnd
        fracLen == IF hasFrac THEN fracEnd - intEnd - 1 ELSE 0
        wellFormed == intEnd > first /\ (hasFrac => fracLen > 0) /\ fracEnd = Len(s) + 1
        mantissa == DigitRun(s, first, 0) * Pow10(fracLen)
                      + (IF hasFrac THEN DigitRun(s, intEnd + 1, 0) ELSE 0)
    IN  IF wellFormed THEN [nan |-> FALSE, val |-> Frac(sign * mantissa, Pow10(fracLen))]
        ELSE [nan |-> TRUE, val |-> FracOfInt(0)]

\* the capital typed for the last reset is invalid: not a number, negative, above the bound
InvalidCapital ==
    LET c == NumberOf(lastOp.input)
    IN  c.nan \/ c.val.n < 0 \/ c.val.n > MaxCapital * c.val.d

\* the last event merged an answer into the watchlist
Merged == lastEvent.ev = "resolve" /\ lastEvent.applied

\* the quote of the last answer for the record that was at position i, <<>> if none
QuoteFor(i) == Find(lastEvent.data, lastEvent.before[i].symbol)

\* every optional field of the quote is absent
AllAbsent(realData) ==
    /\ ~Present(realData.price) /\ ~Present(realData.change)
    /\ ~Present(realData.changePercent) /\ ~Present(realData.volume)

\* day of the week and minute of the day in Taiwan (UTC+8) at minute m
TaiwanDay(m)    == ((m + 8 * 60) \div (24 * 60)) % 7
TaiwanMinute(m) == (m + 8 * 60) % (24 * 60)

----------------------------------------------------------------------------
(* C1: cash is never negative, whatever trades (quantity > 0, price >= 0)  *)
(* and resets have been issued.                                            *)
CashNeverNegative == portfolio.cash >= 0

\* a purchase that spent the last of the cash
CashExhaustedByBuy ==
    /\ LastTrade("BUY") /\ Executed
    /\ lastOp.prev.cash > 0 /\ portfolio.cash = 0

(* C2: a rejected trade (BUY with insufficient cash, SELL with no holding  *)
(* or too few shares) leaves cash, holdings and history as they were.      *)
RejectedByClaim ==
    \/ /\ LastTrade("BUY")
       /\ lastOp.prev.cash < LastAmount
    \/ /\ LastTrade("SELL")
       /\ \/ LastSymbol \notin DOMAIN lastOp.prev.holdings
          \/ lastOp.prev.holdings[LastSymbol].quantity < lastOp.quantity

RejectedTradeLeavesPortfolio == RejectedByClaim => portfolio = lastOp.prev

\* a sale of more shares than held, on a portfolio that has traded
OversoldRejected ==
    /\ LastTrade("SELL")
    /\ LastSymbol \in DOMAIN lastOp.prev.holdings
    /\ lastOp.prev.holdings[LastSymbol].quantity < lastOp.quantity
    /\ Len(lastOp.prev.history) > 0

(* C3: at most one refreshPrices call is in flight, and a timer tick that   *)
(* fires while one is in flight starts no new fetch.                       *)
RefreshNeverOverlaps ==
    /\ Cardinality(inflight) <= 1
    /\ (lastEvent.ev = "tick" /\ lastEvent.pending > 0) => ~lastEvent.started

(* C4: every holding has quantity > 0, and a SELL of all the shares held   *)
(* removes the key from the holdings map.                                  *)
NoZeroQuantityHolding ==
    /\ \A s \in DOMAIN portfolio.holdings : portfolio.holdings[s].quantity > 0
    /\ ( /\ LastTrade("SELL") /\ Executed
         /\ QuantityHeld(lastOp.prev.holdings, LastSymbol) = lastOp.quantity )
       => LastSymbol \notin DOMAIN portfolio.holdings

\* a sale of every share held, while another holding stays
SoldOut ==
    /\ LastTrade("SELL") /\ Executed
    /\ QuantityHeld(lastOp.prev.holdings, LastSymbol) = lastOp.quantity
    /\ LastSymbol \notin DOMAIN portfolio.holdings
    /\ DOMAIN portfolio.holdings # {}

(* C5: handleTrade called with quantity <= 0 changes nothing: no cash, no  *)
(* holding, no record.                                                     *)
NonPositiveQuantityIsNoOp ==
    (lastOp.op = "trade" /\ lastOp.quantity <= 0) => portfolio = lastOp.prev

(* C6: a BUY is executed only if cash >= price*quantity and then takes     *)
(* exactly price*quantity from cash; with less cash the engine rejects it. *)
BuyPrecondition ==
    LastTrade("BUY") =>
        /\ Executed => /\ lastOp.prev.cash >= LastAmount
                       /\ portfolio.cash = lastOp.prev.cash - LastAmount
        /\ lastOp.prev.cash < LastAmount => /\ ~Executed
                                            /\ portfolio.cash = lastOp.prev.cash
        /\ lastOp.prev.cash >= LastAmount => Executed

\* a purchase of two shares that cost something and left cash behind
BuyExecuted ==
    /\ LastTrade("BUY") /\ Executed
    /\ lastOp.quantity = 2 /\ LastPrice > 0
    /\ portfolio.cash > 0 /\ portfolio.cash < 4

(* C7: a SELL is executed only if the symbol is held with quantity >= q;   *)
(* it then adds price*q to cash and takes q from the holding; otherwise    *)
(* nothing changes.                                                        *)
SellPrecondition ==
    LastTrade("SELL") =>
        LET held == QuantityHeld(lastOp.prev.holdings, LastSymbol)
            ok   == LastSymbol \in DOMAIN lastOp.prev.holdings /\ held >= lastOp.quantity
        IN  /\ Executed <=> ok
            /\ ok => /\ portfolio.cash = lastOp.prev.cash + LastAmount
                     /\ QuantityHeld(portfolio.holdings, LastSymbol) = held - lastOp.quantity
                     /\ OthersUntouched(LastSymbol)
            /\ ~ok => portfolio = lastOp.prev

\* a sale that brought money in
SellExecuted ==
    /\ LastTrade("SELL") /\ Executed
    /\ LastAmount > 0
    /\ portfolio.cash = lastOp.prev.cash + LastAmount

(* C8 as claimed: BUY q then SELL q of one security at one price, the BUY  *)
(* affordable, restores cash and leaves no holding of the security.        *)
RoundTrip ==
    /\ LastTrade("SELL")
    /\ prior.op = "trade" /\ prior.side = "BUY"
    /\ prior.stock = lastOp.stock /\ prior.quantity = lastOp.quantity
    /\ prior.prev.cash >= LastAmount

RoundTripRemovesHolding ==
    RoundTrip => /\ portfolio.cash = prior.prev.cash
                 /\ LastSymbol \notin DOMAIN portfolio.holdings

(* C8 amended: with exact amounts (integer prices) the round trip restores  *)
(* cash, and it restores the number of shares held: the holding is removed *)
(* when there was none before the BUY, and a holding that was there before *)
(* keeps its earlier quantity.                                             *)
RoundTripRestores ==
    RoundTrip => /\ portfolio.cash = prior.prev.cash
                 /\ QuantityHeld(portfolio.holdings, LastSymbol)
                        = QuantityHeld(prior.prev.holdings, LastSymbol)
                 /\ (LastSymbol \notin DOMAIN prior.prev.holdings
                        => LastSymbol \notin DOMAIN portfolio.holdings)
                 /\ (DOMAIN portfolio.holdings) = (DOMAIN prior.prev.holdings)

\* a round trip of two paid shares from a portfolio without the security
RoundTripDone ==
    /\ RoundTrip /\ Executed
    /\ lastOp.quantity = 2 /\ LastPrice > 0
    /\ LastSymbol \notin DOMAIN prior.prev.holdings
    /\ LastSymbol \notin DOMAIN portfolio.holdings

(* C9: an executed BUY on an existing holding (oldQty, oldAvg) gives       *)
(* quantity oldQty + q and averageCost (oldAvg*oldQty + p*q)/(oldQty + q); *)
(* with no holding it creates one with averageCost p and quantity q.       *)
WeightedAverageCost ==
    (LastTrade("BUY") /\ Executed) =>
        LET new == portfolio.holdings[LastSymbol]
        IN  /\ LastSymbol \in DOMAIN portfolio.holdings
            /\ IF LastSymbol \in DOMAIN lastOp.prev.holdings
               THEN LET old    == lastOp.prev.holdings[LastSymbol]
                        oldQty == old.quantity
                        oldAvg == old.averageCost
                    IN  /\ new.quantity = oldQty + lastOp.quantity
                        \* new.n/new.d = (oldAvg.n/oldAvg.d * oldQty + p*q) / (oldQty + q)
                        /\ new.averageCost.n * (oldAvg.d * (oldQty + lastOp.quantity))
                             = (oldAvg.n * oldQty + LastAmount * oldAvg.d) * new.averageCost.d
                        /\ new.averageCost.d > 0
               ELSE /\ new.quantity = lastOp.quantity
                    /\ new.averageCost.n = LastPrice * new.averageCost.d
                    /\ new.averageCost.d > 0

\* a purchase at a price unlike the cost basis: the new basis lies strictly between the two
AveragedDown ==
    /\ LastTrade("BUY") /\ Executed
    /\ LastSymbol \in DOMAIN lastOp.prev.holdings
    /\ portfolio.holdings[LastSymbol].averageCost.d > 1
    /\ LastPrice < 2

(* C10: an executed SELL that leaves shares changes neither averageCost    *)
(* nor symbol nor name of the holding; only quantity and cash change.      *)
SellKeepsAverageCost ==
    ( /\ LastTrade("SELL") /\ Executed
      /\ LastSymbol \in DOMAIN portfolio.holdings )
    => LET old == lastOp.prev.holdings[LastSymbol]
           new == portfolio.holdings[LastSymbol]
       IN  /\ new.averageCost = old.averageCost
           /\ new.symbol = old.symbol
           /\ new.name = old.name
           /\ new = [old EXCEPT !.quantity = new.quantity]
           /\ OthersUntouched(LastSymbol)
           /\ portfolio.history = Append(lastOp.prev.history, portfolio.history[Len(portfolio.history)])

\* a partial sale at a price unlike the cost basis of the shares kept
PartialSale ==
    /\ LastTrade("SELL") /\ Executed
    /\ LastSymbol \in DOMAIN portfolio.holdings
    /\ portfolio.holdings[LastSymbol].averageCost # FracOfInt(LastPrice)
    /\ portfolio.holdings[LastSymbol].quantity < lastOp.prev.holdings[LastSymbol].quantity

(* C11: every accepted trade, BUY or SELL, appends exactly one record to  *)
(* the history: its side, symbol and quantity are those of the trade, its  *)
(* price is the record's current price and its amount is price*quantity.   *)
AcceptedTradeIsRecorded ==
    (lastOp.op = "trade" /\ ~RejectedByClaim)
    => /\ Len(portfolio.history) = Len(lastOp.prev.history) + 1
       /\ SubSeq(portfolio.history, 1, Len(lastOp.prev.history)) = lastOp.prev.history
       /\ LET record == portfolio.history[Len(portfolio.history)]
          IN  /\ record.type = lastOp.side
              /\ record.symbol = lastOp.stock.symbol
              /\ record.price = lastOp.stock.price
              /\ record.quantity = lastOp.quantity
              /\ record.amount = lastOp.stock.price * lastOp.quantity

\* a sale of two shares recorded after a purchase: amount and price differ
SaleRecorded ==
    /\ LastTrade("SELL") /\ ~RejectedByClaim
    /\ lastOp.quantity = 2 /\ LastPrice = 2
    /\ Len(portfolio.history) >= 2
    /\ portfolio.history[Len(portfolio.history)].amount = 4

(* C12: any two distinct records of the trade history have different ids,  *)
(* also when two trades are executed within the same clock millisecond.    *)
TradeIdsUnique ==
    \A i, j \in 1..Len(portfolio.history) :
        i # j => portfolio.history[i].id # portfolio.history[j].id

(* C13: every holding of a reachable portfolio has averageCost > 0, also   *)
(* one bought on a record that a lookup created and whose quote fetch      *)
(* returned nothing (record price 0).                                      *)
AverageCostPositive ==
    \A sym \in DOMAIN portfolio.holdings :
        /\ portfolio.holdings[sym].averageCost.d > 0
        /\ portfolio.holdings[sym].averageCost.n > 0

(* C14: a trade executes against the latest known record: whenever a      *)
(* trade on a symbol is executed, its execution price is the price that    *)
(* the most recent completed quote merge for that symbol produced.         *)
TradeUsesLatestRecord ==
    [][ Len(portfolio'.history) = Len(portfolio.history) + 1
        => LET record == portfolio'.history[Len(portfolio'.history)]
           IN  merged[record.symbol] # <<>> => record.price = merged[record.symbol][1] ]_vars

(* C15: a valid reset with capital c, 0 <= c <= 10,000,000, replaces the   *)
(* whole portfolio at once: cash = c, no holdings, no history, and         *)
(* initialCapital = c; a reset never leaves the portfolio partially reset; *)
(* no other operation clears holdings or history.                          *)
WhollyReset(c) ==
    /\ initialCapital = c
    /\ portfolio.cash = c
    /\ DOMAIN portfolio.holdings = {}
    /\ portfolio.history = <<>>

InvalidResetRejected ==
    (lastOp.op = "reset" /\ InvalidCapital)
    => /\ lastOp.alert
       /\ portfolio = lastOp.prev
       /\ initialCapital = lastOp.prevCapital

(* C17: the history of every security record has at most 30 entries in    *)
(* every reachable state, however many quote merges were applied to it.    *)
HistoryBounded ==
    /\ \A i \in 1..Len(stocks) : Len(stocks[i].history) <= HistoryLength
    /\ ~selectedStock.isNull => Len(selectedStock.history) <= HistoryLength

\* a merge into a record whose window was full: the window rolled and is still full
FullWindowMerged ==
    /\ Merged
    /\ \E i \in 1..Len(stocks) :
          /\ QuoteFor(i) # <<>>
          /\ Len(lastEvent.before[i].history) = HistoryLength
          /\ stocks[i].history # lastEvent.before[i].history
          /\ Len(stocks[i].history) = HistoryLength

(* C18: the effective price of a merge: when the update carries a price,   *)
(* whatever its value, 0 included, the merged record's price is that       *)
(* price; when it carries none, the merged record keeps the existing price.*)
EffectivePrice ==
    Merged
    => \A i \in 1..Len(stocks) :
          QuoteFor(i) # <<>>
          => stocks[i].price = IF Present(QuoteFor(i)[1].price)
                               THEN QuoteFor(i)[1].price[1]
                               ELSE lastEvent.before[i].price

(* C19: merging a quote with all fields absent leaves price, change,       *)
(* changePercent, volume and obv of the record as they were; only the      *)
(* history window and the moving averages may change.                      *)
AllAbsentKeepsFields ==
    Merged
    => \A i \in 1..Len(stocks) :
          (QuoteFor(i) # <<>> /\ AllAbsent(QuoteFor(i)[1]))
          => stocks[i] = [lastEvent.before[i] EXCEPT !.history = stocks[i].history,
                                                     !.ma5 = stocks[i].ma5,
                                                     !.ma10 = stocks[i].ma10,
                                                     !.ma20 = stocks[i].ma20]

\* an all-absent quote merged into a record with a change, a volume and an obv: the
\* window rolled, the fields stayed
AllAbsentMerged ==
    /\ Merged
    /\ \E i \in 1..Len(stocks) :
          /\ QuoteFor(i) # <<>> /\ AllAbsent(QuoteFor(i)[1])
          /\ lastEvent.before[i].change # 0 /\ lastEvent.before[i].volume # 0
          /\ lastEvent.before[i].obv # 0
          /\ stocks[i].history # lastEvent.before[i].history
          /\ stocks[i].change = lastEvent.before[i].change

(* C20: the classification of the market clock is total and exact: for   *)
(* every instant, with d the day of the week and t the minute of the day   *)
(* in Taiwan (UTC+8), it is CLOSED when d is Saturday or Sunday, otherwise *)
(* OPEN when 540 <= t <= 810, PRE_MARKET when t < 540, CLOSED when t > 810.*)
ClassificationExact ==
    lastEvent.ev = "clock"
    => LET d == TaiwanDay(lastEvent.at.m)
           t == TaiwanMinute(lastEvent.at.m)
       IN  marketStatus = IF d = 0 \/ d = 6 THEN "CLOSED"
                          ELSE IF 540 <= t /\ t <= 810 THEN "OPEN"
                          ELSE IF t < 540 THEN "PRE_MARKET"
                          ELSE "CLOSED"

----------------------------------------------------------------------------
(* C22: an answer of the provider that is empty (as it is when the provider *)
(* failed) ends the refresh without an error and leaves every record, on    *)
(* the watchlist and in the open sheet, as it was; an answer that is not    *)
(* empty leaves every record it has no quote for as it was, its history and *)
(* its indicators included.                                                 *)
AnswerStep == inflight' # inflight /\ inflight' \subseteq inflight

StaleDataKept ==
    [][ AnswerStep
        => /\ phase' = phase
           /\ Len(stocks') = Len(stocks)
           /\ \A i \in 1..Len(stocks) :
                 Find(lastEvent'.data, stocks[i].symbol) = <<>> => stocks'[i] = stocks[i]
           /\ (~selectedStock.isNull /\ Find(lastEvent'.data, selectedStock.symbol) = <<>>)
                 => selectedStock' = selectedStock
           /\ lastEvent'.data = <<>> => (stocks' = stocks /\ selectedStock' = selectedStock)
      ]_vars

\* the sheet open on a record, an answer with quotes for other symbols only has been merged:
\* the record of that symbol on the list is as it was, another one has changed
QuotelessRecordKept ==
    /\ Merged
    /\ lastEvent.data # <<>>
    /\ ~selectedStock.isNull
    /\ Find(lastEvent.data, selectedStock.symbol) = <<>>
    /\ \E i, j \in 1..Len(stocks) :
          /\ stocks[i].symbol = selectedStock.symbol
          /\ stocks[i] = lastEvent.before[i]
          /\ stocks[j] # lastEvent.before[j]

----------------------------------------------------------------------------
(* C23: a toggle of the watchlist for a security whose symbol is on the     *)
(* list removes every entry with that symbol; for one whose symbol is not   *)
(* on it, it puts the security in front and leaves the others in their      *)
(* order.  The list never holds two entries with one symbol.                *)
OnList(list, sym) == \E i \in 1..Len(list) : list[i].symbol = sym

NoDuplicates(list) ==
    \A i, j \in 1..Len(list) : list[i].symbol = list[j].symbol => i = j

ToggleAddsOrRemoves ==
    [][ /\ NoDuplicates(stocks')
        /\ toggles' # toggles
           => IF OnList(stocks, selectedStock.symbol)
              THEN stocks' = SelectSeq(stocks, LAMBDA e : e.symbol # selectedStock.symbol)
              ELSE /\ stocks'[1] = selectedStock
                   /\ Tail(stocks') = stocks ]_vars

\* one security taken off the list, then one that was never on it put in front
ToggledOffAndOn ==
    /\ lastEvent.ev = "toggle"
    /\ toggles = 2
    /\ ~OnList(stocks, "2330")
    /\ ~OnList(lastEvent.before, "2882")
    /\ stocks[1].symbol = "2882"
    /\ Tail(stocks) = lastEvent.before

----------------------------------------------------------------------------
(* C24: the portfolio (cash, holdings, trade history) changes only in a     *)
(* step of the ledger, a trade or a reset.  A step that sends a quote       *)
(* request, one that takes its answer, a toggle of the watchlist, a search  *)
(* (its start and its answer) and the opening of the sheet on a record each *)
(* leave it as it was.                                                      *)
RequestStep == issued' # issued
SearchStep == searching' # searching
SelectionStep == selectedStock.isNull /\ ~selectedStock'.isNull
ToggleStep == toggles' # toggles

OnlyLedgerChangesPortfolio ==
    [][ /\ (RequestStep \/ AnswerStep \/ ToggleStep \/ SearchStep \/ SelectionStep)
           => portfolio' = portfolio
        /\ portfolio' # portfolio
           => (lastOp' # lastOp /\ lastOp'.op \in {"trade", "reset"}) ]_vars

\* a trade has been made from the sheet, which it closed; a search then opened the sheet
\* on a security it looked up, the portfolio being as the trade left it
SearchedAfterTrade ==
    /\ lastOp.op = "trade"
    /\ Len(portfolio.history) = 1
    /\ portfolio # lastOp.prev
    /\ portfolio.cash = lastOp.prev.cash - LastAmount
    /\ ~selectedStock.isNull
    /\ selectedStock.symbol = "2882"

----------------------------------------------------------------------------
(* C25: with no reset in between, a step leaves the trade history as it is  *)
(* or adds one record at its end: the records it held stay, unchanged and   *)
(* in their places.  The records are in the order of their timestamps.      *)
Chronological(history) ==
    \A i, j \in 1..Len(history) : i < j => history[i].timestamp <= history[j].timestamp

HistoryAppendOnly ==
    [][ /\ \/ portfolio'.history = portfolio.history
           \/ /\ Len(portfolio'.history) = Len(portfolio.history) + 1
              /\ SubSeq(portfolio'.history, 1, Len(portfolio.history)) = portfolio.history
        /\ Chronological(portfolio'.history) ]_vars

\* three trades, the clock having advanced between the first and the last
ThreeTradesInOrder ==
    /\ Len(portfolio.history) = 3
    /\ lastOp.op = "trade"
    /\ portfolio.history[3].symbol = LastSymbol
    /\ portfolio.history[3].timestamp = now
    /\ SubSeq(portfolio.history, 1, 2) = lastOp.prev.history
    /\ portfolio.history[1].timestamp < portfolio.history[3].timestamp

----------------------------------------------------------------------------
(* C26: when the request of analyzeStockWithAI fails, or its response has   *)
(* no text, or a text that is not JSON, the call does not throw and its     *)
(* result has recommendation HOLD and confidence 0.                         *)
FailedOutcome(outcome) ==
    \/ outcome.thrown
    \/ outcome.text = <<>>
    \/ outcome.text[1] = <<>>
    \/ ~JSONParse(outcome.text[1]).ok

IsHoldAtZero(value) ==
    /\ value.kind = "object"
    /\ {"recommendation", "confidence"} \subseteq DOMAIN value.members
    /\ value.members["recommendation"] = Str("HOLD")
    /\ value.members["confidence"] = Num(0)

AnalysisFallsBackToHold ==
    [][ (lastEvent' # lastEvent /\ lastEvent'.ev = "analysis"
            /\ FailedOutcome(lastEvent'.data[1]))
        => (lastEvent'.applied /\ IsHoldAtZero(analysis')) ]_vars

\* the response was a text cut off in the middle of an object: the sheet shows HOLD at 0
UnparsableAnswered ==
    /\ lastEvent.ev = "analysis"
    /\ ~lastEvent.data[1].thrown
    /\ lastEvent.data[1].text # <<>>
    /\ Len(lastEvent.data[1].text[1]) > 1
    /\ ~JSONParse(lastEvent.data[1].text[1]).ok
    /\ ~selectedStock.isNull
    /\ IsHoldAtZero(analysis)

----------------------------------------------------------------------------
(* C27: from cash 5,000,000, a purchase of 1000 shares at 1080 and then one *)
(* of 500 shares at 1100 leave cash 3,370,000 and a holding of 1500 shares  *)
(* whose stored averageCost is the quotient (1080*1000 + 1100*500)/1500     *)
(* itself, not rounded; rounded to 2 decimal places it reads 1086.67.       *)
ScenarioDone ==
    /\ Len(portfolio.history) = 2
    /\ portfolio.history[1].type = "BUY" /\ portfolio.history[2].type = "BUY"
    /\ portfolio.history[1].price = 1080 /\ portfolio.history[1].quantity = 1000
    /\ portfolio.history[2].price = 1100 /\ portfolio.history[2].quantity = 500

\* f rounded to 2 decimal places, in hundredths (f >= 0)
Hundredths(f) == (2 * 100 * f.n + f.d) \div (2 * f.d)

ScenarioBalances ==
    /\ portfolio.cash = 3370000
    /\ "2330" \in DOMAIN portfolio.holdings
    /\ portfolio.holdings["2330"].quantity = 1500

\* as first stated: the stored averageCost is 1086.67
ScenarioStoresRounded ==
    ScenarioDone
    => /\ ScenarioBalances
       /\ portfolio.holdings["2330"].averageCost = Frac(108667, 100)

ScenarioStoresQuotient ==
    ScenarioDone
    => /\ ScenarioBalances
       /\ portfolio.holdings["2330"].averageCost = Frac(1080 * 1000 + 1100 * 500, 1500)
       /\ Hundredths(portfolio.holdings["2330"].averageCost) = 108667

\* the two purchases of the example have been made
ScenarioPlayed == ScenarioDone /\ lastOp.op = "trade" /\ portfolio.cash = 3370000

----------------------------------------------------------------------------
(* C28: when a refresh of the mounted component ends, whatever the provider *)
(* answered (quotes, or nothing as it does when it failed), the in-flight   *)
(* flag is cleared; the flag is never set while no refresh is in flight.    *)
FlagAlwaysCleared ==
    [][ /\ (AnswerStep /\ phase # "unmounted") => ~isUpdating'
        /\ (phase' # "unmounted" /\ inflight' = {}) => ~isUpdating' ]_vars

\* the only refresh in flight ended on an empty answer and the flag is down
FlagClearedOnEmptyAnswer ==
    /\ lastEvent.ev = "resolve"
    /\ lastEvent.applied
    /\ lastEvent.data = <<>>
    /\ lastEvent.pending = 1
    /\ inflight = {}
    /\ ~isUpdating

----------------------------------------------------------------------------
(* C29: a refresh asks for the quotes of exactly the symbols that are on    *)
(* the watchlist when it starts, and of the security open in the sheet if   *)
(* there is one; so a symbol put on the list, or opened, after the start of *)
(* the app is asked for by every refresh started later.                     *)
SymbolsInView ==
    { stocks[i].symbol : i \in 1..Len(stocks) }
    \cup (IF selectedStock.isNull THEN {} ELSE {selectedStock.symbol})

RefreshAsksForViewedSymbols ==
    [][ \A r \in inflight' \ inflight :
           { r.symbols[i] : i \in 1..Len(r.symbols) } = SymbolsInView ]_vars

----------------------------------------------------------------------------
(* C30: a tick of the interval starts a refresh exactly when the market     *)
(* clock returns OPEN at that tick: in PRE_MARKET and CLOSED it starts      *)
(* none.  The one fetch of the start-up is made whatever the clock returns. *)
SchedulerEvent == lastEvent.ev \in {"mount", "tick"}

----------------------------------------------------------------------------
(* C31: the refresh that completed last wins: when an answer is merged      *)
(* after an earlier answer was, every record of the watchlist for whose     *)
(* symbol the later answer carries a price has that price, and has it as    *)
(* the newest entry of its history.                                         *)
Completed == issued - Cardinality(inflight)

LastCompletedWins ==
    (Merged /\ Completed >= 2)
    => \A i \in 1..Len(stocks) :
          (QuoteFor(i) # <<>> /\ Present(QuoteFor(i)[1].price))
          => /\ stocks[i].price = QuoteFor(i)[1].price[1]
             /\ stocks[i].history # <<>>
             /\ stocks[i].history[Len(stocks[i].history)] = QuoteFor(i)[1].price[1]

----------------------------------------------------------------------------
(* C32: a merge into a record whose history is not empty gives the old      *)
(* history without its first (oldest) entry, followed by the price the      *)
(* merge gives the record: the length is kept and the entries that stay     *)
(* keep their order.                                                        *)
HistoryRollsFifo ==
    Merged
    => \A i \in 1..Len(stocks) :
          (QuoteFor(i) # <<>> /\ lastEvent.before[i].history # <<>>)
          => /\ stocks[i].history = Append(Tail(lastEvent.before[i].history), stocks[i].price)
             /\ Len(stocks[i].history) = Len(lastEvent.before[i].history)

\* a window whose entries differ rolled by one place and took a new price at its end
WindowShifted ==
    /\ Merged
    /\ \E i \in 1..Len(stocks) :
          /\ QuoteFor(i) # <<>>
          /\ Len(lastEvent.before[i].history) = HistoryLength
          /\ lastEvent.before[i].history[1] # lastEvent.before[i].history[2]
          /\ stocks[i].history[1] = lastEvent.before[i].history[2]
          /\ stocks[i].price # lastEvent.before[i].price
          /\ stocks[i].history[HistoryLength] = stocks[i].price

----------------------------------------------------------------------------
(* C35: a merge gives the record the obv it had plus the volume of the      *)
(* quote, plus 0 when the quote has no volume, whichever way the price      *)
(* moved; the volumes being non-negative, obv does not decrease.            *)
VolumeOf(realData) == IF Present(realData.volume) THEN realData.volume[1] ELSE 0

ObvAccumulates ==
    Merged
    => \A i \in 1..Len(stocks) :
          /\ QuoteFor(i) # <<>>
                => stocks[i].obv = lastEvent.before[i].obv + VolumeOf(QuoteFor(i)[1])
          /\ stocks[i].obv >= lastEvent.before[i].obv

\* a second quote with a volume merged at an unchanged price: the volume was added again
VolumeAddedAtSamePrice ==
    /\ Merged
    /\ \E i \in 1..Len(stocks) :
          /\ QuoteFor(i) # <<>>
          /\ VolumeOf(QuoteFor(i)[1]) > 0
          /\ lastEvent.before[i].obv > 0
          /\ stocks[i].price = lastEvent.before[i].price
          /\ stocks[i].obv = lastEvent.before[i].obv + VolumeOf(QuoteFor(i)[1])

----------------------------------------------------------------------------
(* C33: after a merge ma5, ma10 and ma20 of the updated record are the mean *)
(* of the last 5, 10 and 20 entries of its new history rounded to 2 decimal *)
(* places; calculateSMA returns that rounded mean, and 0 for fewer entries  *)
(* than the period.                                                         *)
SeqMin(q) == CHOOSE x \in { q[i] : i \in 1..Len(q) } : \A j \in 1..Len(q) : x <= q[j]
SeqMax(q) == CHOOSE x \in { q[i] : i \in 1..Len(q) } : \A j \in 1..Len(q) : x >= q[j]

MaOf(stock, period) ==
    IF period = 5 THEN stock.ma5 ELSE IF period = 10 THEN stock.ma10 ELSE stock.ma20

\* r is a multiple of 0.01 at most 0.005 away from the mean of the last period entries
IsMeanTo2dp(r, data, period, unit) ==
    /\ r.d > 0
    /\ 100 % r.d = 0
    /\ 2 * Abs(r.n * (100 \div r.d) * period * unit - 100 * SumSeq(LastN(data, period)))
          <= period * unit

SMACalled == pureCall.fn = "calculateSMA"

SMAIsRoundedMean ==
    /\ SMACalled
          => IF Len(pureCall.data) < pureCall.period THEN pureCall.result = FracOfInt(0)
             ELSE IsMeanTo2dp(pureCall.result, pureCall.data, pureCall.period, pureCall.unit)
    /\ Merged
          => \A i \in 1..Len(stocks) : \A period \in SMAPeriods :
                QuoteFor(i) # <<>>
                => /\ Len(stocks[i].history) >= period
                   /\ IsMeanTo2dp(MaOf(stocks[i], period), stocks[i].history, period, 1)

\* a merge has stored averages, and a call of its own had a mean to round
MeanWasRounded ==
    /\ Merged
    /\ \E i \in 1..Len(stocks) : QuoteFor(i) # <<>> /\ stocks[i].ma20 # FracOfInt(0)
    /\ SMACalled
    /\ Len(pureCall.data) >= pureCall.period
    /\ (100 * SumSeq(LastN(pureCall.data, pureCall.period)))
          % (pureCall.period * pureCall.unit) # 0

(* C34: with 5 entries or more, ma5 lies between the least and the greatest *)
(* of the last 5 entries, whatever the number of decimal places of the      *)
(* entries.                                                                 *)
\* lo/unit - slack/200 <= r <= hi/unit + slack/200
WithinRange(r, lo, hi, unit, slack) ==
    /\ 200 * lo * r.d - slack * unit * r.d <= 200 * r.n * unit
    /\ 200 * r.n * unit <= 200 * hi * r.d + slack * unit * r.d

MA5Called == SMACalled /\ pureCall.period = 5 /\ Len(pureCall.data) >= 5

MA5WithinRange ==
    /\ MA5Called
          => WithinRange(pureCall.result, SeqMin(LastN(pureCall.data, 5)),
                         SeqMax(LastN(pureCall.data, 5)), pureCall.unit, 0)
    /\ \A i \in 1..Len(stocks) :
          Len(stocks[i].history) >= 5
          => WithinRange(stocks[i].ma5, SeqMin(LastN(stocks[i].history, 5)),
                         SeqMax(LastN(stocks[i].history, 5)), 1, 0)

(* C34, amended: ma5 is at most 0.005 outside the range of the last 5       *)
(* entries, and inside it when those entries have at most 2 decimal places. *)
AtMost2dp(data, unit) == \A i \in 1..Len(data) : (100 * data[i]) % unit = 0

MA5WithinHalfCentOfRange ==
    /\ MA5Called
          => WithinRange(pureCall.result, SeqMin(LastN(pureCall.data, 5)),
                         SeqMax(LastN(pureCall.data, 5)), pureCall.unit,
                         IF AtMost2dp(LastN(pureCall.data, 5), pureCall.unit) THEN 0 ELSE 1)
    /\ \A i \in 1..Len(stocks) :
          Len(stocks[i].history) >= 5
          => WithinRange(stocks[i].ma5, SeqMin(LastN(stocks[i].history, 5)),
                         SeqMax(LastN(stocks[i].history, 5)), 1, 0)

\* five entries of 10.004: the mean 10.004 is stored as 10.00, below every entry
MA5RoundedBelowRange ==
    /\ MA5Called
    /\ SeqMin(LastN(pureCall.data, 5)) = 10004
    /\ SeqMax(LastN(pureCall.data, 5)) = 10004
    /\ pureCall.result = FracOfInt(10)

----------------------------------------------------------------------------
(* C36: after a merge the history of the updated record has exactly 30      *)
(* entries, the last of them the price of the record; every record of the   *)
(* list, and the record on the sheet, has a history of 0 or of 30 entries.  *)
EmptyOrFull(history) == Len(history) = 0 \/ Len(history) = HistoryLength

HistoryEmptyOrFull ==
    /\ \A i \in 1..Len(stocks) : EmptyOrFull(stocks[i].history)
    /\ EmptyOrFull(selectedStock.history)
    /\ Merged
          => \A i \in 1..Len(stocks) :
                QuoteFor(i) # <<>>
                => /\ Len(stocks[i].history) = HistoryLength
                   /\ stocks[i].history[HistoryLength] = stocks[i].price

\* a record got its walk from a merge while another record of the list has no history yet
WalkGeneratedBesideEmpty ==
    /\ Merged
    /\ \E i \in 1..Len(stocks) :
          /\ QuoteFor(i) # <<>>
          /\ lastEvent.before[i].history = <<>>
          /\ Len(stocks[i].history) = HistoryLength
          /\ stocks[i].history[1] # stocks[i].price
          /\ stocks[i].history[HistoryLength] = stocks[i].price
    /\ \E j \in 1..Len(stocks) : stocks[j].history = <<>>

----------------------------------------------------------------------------
(* C37: the cash is the initial capital less the amounts of the BUY records *)
(* plus the amounts of the SELL records of the history; the quantity held   *)
(* of a symbol is its BUY quantities less its SELL quantities, and the      *)
(* symbol has no holding exactly when that difference is 0.                 *)
RECURSIVE AmountOf(_, _)
AmountOf(history, type) ==
    IF history = <<>> THEN 0
    ELSE (IF Head(history).type = type THEN Head(history).amount ELSE 0)
         + AmountOf(Tail(history), type)

RECURSIVE QuantityOf(_, _, _)
QuantityOf(history, type, sym) ==
    IF history = <<>> THEN 0
    ELSE (IF Head(history).type = type /\ Head(history).symbol = sym
          THEN Head(history).quantity ELSE 0)
         + QuantityOf(Tail(history), type, sym)

NetQuantity(sym) ==
    QuantityOf(portfolio.history, "BUY", sym) - QuantityOf(portfolio.history, "SELL", sym)

TradedSymbols == { stock.symbol : stock \in TradeStocks }

----------------------------------------------------------------------------
(* C38: the updater of an accepted trade leaves the portfolio it was given  *)
(* as it was, and called a second time with that same portfolio it returns  *)
(* the same result, one trade record longer than the portfolio given.       *)
UpdaterAccepted == pureCall.fn = "tradeUpdater" /\ pureCall.first # pureCall.prev

TradeUpdaterIsPure ==
    UpdaterAccepted
    => /\ pureCall.prevAfter = pureCall.prev
       /\ pureCall.second = pureCall.first
       /\ Len(pureCall.second.history) = Len(pureCall.prev.history) + 1

----------------------------------------------------------------------------
(* C39: the answer to a quote request leaves the symbols of the watchlist   *)
(* and their order as they were; a symbol taken off the list while the      *)
(* request was in flight is not put back by its quote.                      *)
SymbolSeq(list) == [i \in 1..Len(list) |-> list[i].symbol]

AnswerKeepsMembership ==
    [][ AnswerStep => SymbolSeq(stocks') = SymbolSeq(stocks) ]_vars

\* 2330 was taken off the list while the request of the mount was in flight; the answer
\* brought a quote for 2330 and the list is still without it
UnlistedQuoteDropped ==
    /\ lastEvent.ev = "resolve"
    /\ issued = 1
    /\ toggles = 1
    /\ inflight = {}
    /\ Find(lastEvent.data, "2330") # <<>>
    /\ Present(Find(lastEvent.data, "2330")[1].price)
    /\ ~OnList(lastEvent.before, "2330")
    /\ ~OnList(stocks, "2330")
    /\ Len(stocks) = Len(INITIAL_STOCKS) - 1

====
